---- MODULE Spec2Model ----
(***************************************************************************)
(* Timed keystroke injection of the X16 emulator's remote-control surface: *)
(* the event-queue manager of src/mcp/keyboard_processor.cpp               *)
(* (submit_input_queue / process_input_event_queues) and its callers.      *)
(***************************************************************************)
EXTENDS Integers, Sequences, FiniteSets, TLC

(* ---------------------------------------------------------------------- *)
(* Bounds of the model                                                     *)
(* ---------------------------------------------------------------------- *)
\* longest event queue handed to submit_input_queue
MaxQueueLen == 3
\* number of non-null submit_input_queue calls in one behaviour
MaxSubmits == 2
\* number of events in all the queues submitted in one behaviour
MaxEvents == 3
\* total number of milliseconds the tick counter advances in one behaviour
MaxAge == 3
\* largest advance of the tick counter between two observations
MaxStep == 1
\* the tick counter may start this many milliseconds before it wraps
WrapLead == 2
\* number of pieces of the pool a text is put together from
MaxPieces == 2
\* non-null submit_input_queue calls in one behaviour of the threaded model
MaxConcSubmits == 2
\* longest event queue in the threaded model
MaxConcQueueLen == 1
\* number of HTTP request threads that enter translate_ascii_to_events
MaxThreads == 2
\* number of keyboard_add_text calls in one behaviour
MaxAddCalls == 3
\* total number of milliseconds the tick counter advances in one behaviour
\* of the legacy character queue
MaxLegacyAge == 20
\* number of x16_buffer_* calls in one behaviour
MaxBufCalls == 3
\* largest capacity asked of x16_buffer_alloc and x16_buffer_resize
MaxCapacity == 4
\* modulus of the unsigned counters g_elapsed_time, g_last_event_time and
\* SDL_GetTicks(): uint32_t in the program (2^32); the model keeps the same
\* wrap-around arithmetic over a 30-bit word, the widest whose sums TLC's
\* integers hold
UINT_MODULUS == 1073741824

(* ---------------------------------------------------------------------- *)
(* Program constants                                                       *)
(* ---------------------------------------------------------------------- *)
INPUT_TYPE_KEYBOARD == "INPUT_TYPE_KEYBOARD"
INPUT_TYPE_JOYSTICK == "INPUT_TYPE_JOYSTICK"
INPUT_TYPE_WAIT == "INPUT_TYPE_WAIT"
SDL_SCANCODE_A == 4

\* an InputEventQueue* value: the null pointer, or a pointer to a queue object
\* holding the std::vector<InputEvent> events
NullQueue == [null |-> TRUE, events |-> <<>>]
QueuePtr(events) == [null |-> FALSE, events |-> events]

VARIABLES
    g_pending_queues,       \* std::vector<InputEventQueue*>: sequence of queues
    g_current_event_index,  \* cursor into the front queue (0-based)
    g_last_event_time,      \* uint32 clock of the last tick / activation
    g_elapsed_time,         \* uint32 budget
    g_processing_active,    \* active / idle flag
    ticks,                  \* value SDL_GetTicks() returns now (uint32)
    age,                    \* milliseconds elapsed since the start (history)
    fired,                  \* events fired since the manager last became active
    submitted,              \* queues submitted since the manager last became active
    activatedAt,            \* SDL_GetTicks() at the last activation (history)
    nSubmits,               \* queues accepted by submit_input_queue so far
    nEvents,                \* events in the queues accepted so far
    sink,                   \* calls of handle_keyboard, in order
    errorLogged,            \* X16_LOG_ERROR has written a line
    deleted,                \* queues destroyed since the manager last became active
    pcMain,                 \* main loop's position in process_input_event_queues
    pcHttp,                 \* HTTP thread's position in submit_input_queue
    current_queue,          \* local of process_input_event_queues
    queue,                  \* argument of submit_input_queue in flight
    text,                   \* the input string of a translation (characters)
    mode,                   \* DisplayMode argument of a direct translation call
    typing_rate,            \* typing rate of the request / call, or NoRate
    translation,            \* outcome of translate_ascii_to_events, or NoCall
    response,               \* status of the POST /keyboard response, or "none"
    lookup_initialized,     \* static bool lookup_initialized
    lookup,                 \* static CharacterMapping char_lookup[128] (entries kept)
    pcReq,                  \* each request thread's position in init_char_lookup
    entryRead,              \* the table entry each request thread has read
    mcp_keyboard_queue,     \* static char mcp_keyboard_queue[MCP_KEYBOARD_QUEUE_SIZE]
    mcp_queue_head,         \* index of the next cell written
    mcp_queue_tail,         \* index of the next cell read
    last_key_inject_time,   \* uint32 clock of the last injected character
    kbd_added,              \* calls of i2c_kbd_buffer_add, with their time (history)
    legacyAdded,            \* characters keyboard_add_text has accepted (history)
    legacyRemoved,          \* characters mcp_keyboard_queue_get_next has returned (history)
    nAddCalls,              \* keyboard_add_text calls so far
    buffer,                 \* an x16_buffer_t {data, size, capacity}
    bufCalls                \* the x16_buffer_* calls made on it, with their outcome

mgrVars == <<g_pending_queues, g_current_event_index, g_last_event_time,
             g_elapsed_time, g_processing_active>>
histVars == <<fired, submitted, activatedAt, nSubmits, nEvents, sink, errorLogged,
              deleted>>
threadVars == <<pcMain, pcHttp, current_queue, queue>>
reqVars == <<text, mode, typing_rate, translation, response>>
lookVars == <<lookup_initialized, lookup, pcReq, entryRead>>
legVars == <<mcp_keyboard_queue, mcp_queue_head, mcp_queue_tail, last_key_inject_time,
             kbd_added, legacyAdded, legacyRemoved, nAddCalls>>
bufVars == <<buffer, bufCalls>>
vars == <<g_pending_queues, g_current_event_index, g_last_event_time,
          g_elapsed_time, g_processing_active, reqVars, ticks, age, fired, submitted,
          activatedAt, nSubmits, nEvents, sink, errorLogged,
          pcMain, pcHttp, current_queue, queue,
          text, mode, typing_rate, translation, response, deleted, lookVars,
          legVars, bufVars>>

(* ---------------------------------------------------------------------- *)
(* Events and queues                                                       *)
(* ---------------------------------------------------------------------- *)
\* struct InputEvent {type, is_down, code, wait_ms}
InputEvent(type, is_down, code, wait_ms) ==
    [type |-> type, is_down |-> is_down, code |-> code, wait_ms |-> wait_ms]

\* the events the model's queues are built from: a key press, a key release
\* and a zero-length wait (the macro `_0`)
EventPool ==
    { InputEvent(INPUT_TYPE_KEYBOARD, 1, SDL_SCANCODE_A, 2),
      InputEvent(INPUT_TYPE_KEYBOARD, 0, SDL_SCANCODE_A, 1),
      InputEvent(INPUT_TYPE_WAIT, 0, 0, 0) }

SeqsUpTo(S, n) == UNION { [1..k -> S] : k \in 0..n }

\* the InputEventQueue objects a caller may hand to submit_input_queue
QueuePool == { QueuePtr(es) : es \in SeqsUpTo(EventPool, MaxQueueLen) }

RECURSIVE SumWait(_)
SumWait(q) == IF q = <<>> THEN 0 ELSE Head(q).wait_ms + SumWait(Tail(q))

\* the events of a list of queues, in list order
RECURSIVE Concat(_)
Concat(qs) == IF qs = <<>> THEN <<>> ELSE Head(qs).events \o Concat(Tail(qs))

\* the manager's globals as one value
Mgr == [pending |-> g_pending_queues,
        idx     |-> g_current_event_index,
        last    |-> g_last_event_time,
        elapsed |-> g_elapsed_time,
        active  |-> g_processing_active,
        fired   |-> <<>>,
        sink    |-> <<>>,
        deleted |-> <<>>,
        steps   |-> 0]

\* the globals of a manager value, without the record of what it fired
Globals(m) == <<m.pending, m.idx, m.last, m.elapsed, m.active>>

(* ---------------------------------------------------------------------- *)
(* process_input_event_queues                                              *)
(* ---------------------------------------------------------------------- *)
\* mutation: the early return taken only when both conditions hold
NothingToDoBoth(m) == ~m.active /\ m.pending = <<>>

\* mutation: the tick also returns when the front queue has no events
NothingToDoOrEmptyFront(m) ==
    ~m.active \/ m.pending = <<>> \/ Head(m.pending).events = <<>>

\* if (!g_processing_active || g_pending_queues.empty()) return;
NothingToDo(m) == ~m.active \/ m.pending = <<>>

\* mutation: g_last_event_time is not advanced to the tick's clock
AccumulateTimeKeepLast(m, current_time) ==
    [m EXCEPT !.elapsed = (@ + ((current_time - m.last) % UINT_MODULUS)) % UINT_MODULUS]

\* mutation: the budget is assigned, not accumulated
AccumulateTimeAssign(m, current_time) ==
    [m EXCEPT !.elapsed = (current_time - m.last) % UINT_MODULUS,
              !.last = current_time]

\* g_elapsed_time += current_time - g_last_event_time;
\* g_last_event_time = current_time;            (uint32_t arithmetic)
AccumulateTime(m, current_time) ==
    [m EXCEPT !.elapsed = (@ + ((current_time - m.last) % UINT_MODULUS)) % UINT_MODULUS,
              !.last = current_time]

\* mutation: the budget is not compared with the delay
NotYetDueNever(elapsed, wait_ms) == FALSE

\* mutation: an event is let through one millisecond early
NotYetDueEarly(elapsed, wait_ms) == elapsed + 1 < wait_ms

\* mutation: an event whose delay equals the budget is held back
NotYetDueLate(elapsed, wait_ms) == elapsed <= wait_ms

\* if (g_elapsed_time < event.wait_ms) return;
NotYetDue(elapsed, wait_ms) == elapsed < wait_ms

\* mutation: the cursor is not reset when the front queue is removed
PopFrontKeepCursor(m) ==
    [m EXCEPT !.pending = Tail(@), !.deleted = Append(@, Head(m.pending))]

\* mutation: the budget is reset when the front queue is removed
PopFrontResetBudget(m) ==
    [m EXCEPT !.pending = Tail(@), !.idx = 0, !.elapsed = 0,
              !.deleted = Append(@, Head(m.pending))]

\* mutation: the cursor is left at 1 when the front queue is removed
PopFrontCursorOne(m) ==
    [m EXCEPT !.pending = Tail(@), !.idx = 1,
              !.deleted = Append(@, Head(m.pending))]

\* mutation: the queue is erased from the list but not deleted
PopFrontNoDelete(m) == [m EXCEPT !.pending = Tail(@), !.idx = 0]

\* g_pending_queues.erase(begin()); delete current_queue;
\* g_current_event_index = 0;
PopFront(m) ==
    [m EXCEPT !.pending = Tail(@), !.idx = 0,
              !.deleted = Append(@, Head(m.pending))]

\* mutation: firing an event leaves the budget as it is
FireEventNoDeduct(m, event, current_time) ==
    [m EXCEPT !.sink = IF event.type = INPUT_TYPE_KEYBOARD
                       THEN Append(@, <<event.is_down # 0, event.code>>)
                       ELSE @,
              !.fired = Append(@, [ev |-> event, at |-> current_time,
                                   budget |-> m.elapsed]),
              !.idx = @ + 1]

\* mutation: the cursor moves past two events
FireEventSkip(m, event, current_time) ==
    [m EXCEPT !.elapsed = (@ - event.wait_ms) % UINT_MODULUS,
              !.sink = IF event.type = INPUT_TYPE_KEYBOARD
                       THEN Append(@, <<event.is_down # 0, event.code>>)
                       ELSE @,
              !.fired = Append(@, [ev |-> event, at |-> current_time,
                                   budget |-> m.elapsed]),
              !.idx = @ + 2]

\* mutation: handle_keyboard is called for every event, whatever its type
FireEventSinkAll(m, event, current_time) ==
    [m EXCEPT !.elapsed = (@ - event.wait_ms) % UINT_MODULUS,
              !.sink = Append(@, <<event.is_down # 0, event.code>>),
              !.fired = Append(@, [ev |-> event, at |-> current_time,
                                   budget |-> m.elapsed]),
              !.idx = @ + 1]

\* g_elapsed_time -= event.wait_ms; dispatch on event.type;
\* g_current_event_index++;
FireEvent(m, event, current_time) ==
    [m EXCEPT !.elapsed = (@ - event.wait_ms) % UINT_MODULUS,
              !.sink = IF event.type = INPUT_TYPE_KEYBOARD
                       THEN Append(@, <<event.is_down # 0, event.code>>)
                       ELSE @,
              !.fired = Append(@, [ev |-> event, at |-> current_time,
                                   budget |-> m.elapsed]),
              !.idx = @ + 1]

\* the element of a one-element set (used to evaluate a loop state once
\* before the next iteration reads it)
Only(S) == CHOOSE x \in S : TRUE

\* while (!g_pending_queues.empty()) { for (;;) { ... } }
\* g_processing_active = false;
RECURSIVE DrainLoop(_, _)
DrainLoop(m, current_time) ==
    IF m.pending = <<>>
    THEN [m EXCEPT !.active = FALSE]
    ELSE LET cq == Head(m.pending)
             n == [m EXCEPT !.steps = @ + 1]
         IN  IF m.idx >= Len(cq.events)
             THEN Only({ DrainLoop(x, current_time) : x \in {PopFront(n)} })
             ELSE LET event == cq.events[m.idx + 1] IN
                  IF NotYetDue(m.elapsed, event.wait_ms)
                  THEN n
                  ELSE Only({ DrainLoop(x, current_time) :
                                x \in {FireEvent(n, event, current_time)} })

\* one call of process_input_event_queues with SDL_GetTicks() = current_time
process_input_event_queues(m, current_time) ==
    IF NothingToDo(m)
    THEN m
    ELSE DrainLoop(AccumulateTime(m, current_time), current_time)

(* ---------------------------------------------------------------------- *)
(* submit_input_queue                                                      *)
(* ---------------------------------------------------------------------- *)
\* mutation: the null check is missing
IsNullNever(q) == FALSE

\* if (!queue) { X16_LOG_ERROR(...); return; }
IsNull(q) == q.null

\* mutation: every submission restarts the manager
ShouldActivateAlways(m) == TRUE

\* if (!g_processing_active || g_pending_queues.size() == 1)
ShouldActivate(m) == ~m.active \/ Len(m.pending) = 1

\* mutation: g_last_event_time is not set to the clock of the submission
ActivateKeepLast(m, current_time) ==
    [m EXCEPT !.active = TRUE, !.idx = 0, !.elapsed = 0]

\* mutation: the active flag is not set
ActivateNoFlag(m, current_time) ==
    [m EXCEPT !.idx = 0, !.elapsed = 0, !.last = current_time]

\* g_processing_active = true; g_current_event_index = 0;
\* g_elapsed_time = 0; g_last_event_time = SDL_GetTicks();
Activate(m, current_time) ==
    [m EXCEPT !.active = TRUE, !.idx = 0, !.elapsed = 0, !.last = current_time]

\* one call of submit_input_queue(q) with SDL_GetTicks() = current_time
submit_input_queue(m, q, current_time) ==
    IF IsNull(q)
    THEN m
    ELSE LET pushed == [m EXCEPT !.pending = Append(@, q)] IN
         IF ShouldActivate(pushed) THEN Activate(pushed, current_time) ELSE pushed

(* ---------------------------------------------------------------------- *)
(* Characters, the character table and the macro table                     *)
(* ---------------------------------------------------------------------- *)
\* A std::string is a sequence of characters.  A character is written as the
\* one-character string of its glyph; the backtick, which a TLA+ string
\* cannot hold, and the bytes with the top bit set have names.
Backtick == "<backtick>"
HighBytes == {"<0x80>", "<0xE9>", "<0xFF>"}

LowerCase == <<"a", "b", "c", "d", "e", "f", "g", "h", "i", "j", "k", "l", "m",
               "n", "o", "p", "q", "r", "s", "t", "u", "v", "w", "x", "y", "z">>
UpperCase == <<"A", "B", "C", "D", "E", "F", "G", "H", "I", "J", "K", "L", "M",
               "N", "O", "P", "Q", "R", "S", "T", "U", "V", "W", "X", "Y", "Z">>
Digits == <<"0", "1", "2", "3", "4", "5", "6", "7", "8", "9">>

Range(f) == { f[i] : i \in DOMAIN f }
IndexIn(seq, c) == CHOOSE i \in DOMAIN seq : seq[i] = c

\* c >= 'A' && c <= 'Z', c >= 'a' && c <= 'z', c >= '0' && c <= '9'
IsUpper(c) == c \in Range(UpperCase)
IsLower(c) == c \in Range(LowerCase)
IsDigit(c) == c \in Range(Digits)
\* the value of a decimal digit
DigitValue(c) == IndexIn(Digits, c) - 1

\* the std::string of a sequence of characters
RECURSIVE Str(_)
Str(cs) == IF cs = <<>> THEN "" ELSE Head(cs) \o Str(Tail(cs))

\* SDL_Scancode values (SDL_scancode.h)
SDL_SCANCODE_1 == 30
SDL_SCANCODE_0 == 39
SDL_SCANCODE_RETURN == 40
SDL_SCANCODE_ESCAPE == 41
SDL_SCANCODE_BACKSPACE == 42
SDL_SCANCODE_TAB == 43
SDL_SCANCODE_SPACE == 44
SDL_SCANCODE_MINUS == 45
SDL_SCANCODE_EQUALS == 46
SDL_SCANCODE_LEFTBRACKET == 47
SDL_SCANCODE_RIGHTBRACKET == 48
SDL_SCANCODE_BACKSLASH == 49
SDL_SCANCODE_SEMICOLON == 51
SDL_SCANCODE_APOSTROPHE == 52
SDL_SCANCODE_COMMA == 54
SDL_SCANCODE_PERIOD == 55
SDL_SCANCODE_SLASH == 56
SDL_SCANCODE_F1 == 58
SDL_SCANCODE_HOME == 74
SDL_SCANCODE_DELETE == 76
SDL_SCANCODE_END == 77
SDL_SCANCODE_RIGHT == 79
SDL_SCANCODE_LEFT == 80
SDL_SCANCODE_DOWN == 81
SDL_SCANCODE_UP == 82
SDL_SCANCODE_LSHIFT == 225
SDL_SCANCODE_LALT == 226

\* SDL_SCANCODE_A .. SDL_SCANCODE_Z and SDL_SCANCODE_1 .. SDL_SCANCODE_9 are
\* consecutive; SDL_SCANCODE_0 follows SDL_SCANCODE_9
LetterScancode(i) == SDL_SCANCODE_A + i - 1
DigitScancode(c) ==
    IF c = "0" THEN SDL_SCANCODE_0 ELSE SDL_SCANCODE_1 + DigitValue(c) - 1

\* struct CharacterMapping {ascii_char, scancode, needs_shift, needs_ctrl}
CharacterMapping(c, scancode, needs_shift, needs_ctrl) ==
    [ascii_char |-> c, scancode |-> scancode,
     needs_shift |-> needs_shift, needs_ctrl |-> needs_ctrl]

\* static const CharacterMapping char_map[]
char_map ==
    { CharacterMapping(LowerCase[i], LetterScancode(i), FALSE, FALSE) : i \in 1..26 }
    \cup
    { CharacterMapping(UpperCase[i], LetterScancode(i), FALSE, FALSE) : i \in 1..26 }
    \cup
    { CharacterMapping(Digits[i], DigitScancode(Digits[i]), FALSE, FALSE) : i \in 1..10 }
    \cup
    { CharacterMapping("!", DigitScancode("1"), TRUE, FALSE),
      CharacterMapping("@", DigitScancode("2"), TRUE, FALSE),
      CharacterMapping("#", DigitScancode("3"), TRUE, FALSE),
      CharacterMapping("$", DigitScancode("4"), TRUE, FALSE),
      CharacterMapping("%", DigitScancode("5"), TRUE, FALSE),
      CharacterMapping("^", DigitScancode("6"), TRUE, FALSE),
      CharacterMapping("&", DigitScancode("7"), TRUE, FALSE),
      CharacterMapping("*", DigitScancode("8"), TRUE, FALSE),
      CharacterMapping("(", DigitScancode("9"), TRUE, FALSE),
      CharacterMapping(")", DigitScancode("0"), TRUE, FALSE),
      CharacterMapping("\"", SDL_SCANCODE_APOSTROPHE, TRUE, FALSE),
      CharacterMapping(" ", SDL_SCANCODE_SPACE, FALSE, FALSE),
      CharacterMapping(",", SDL_SCANCODE_COMMA, FALSE, FALSE),
      CharacterMapping(".", SDL_SCANCODE_PERIOD, FALSE, FALSE),
      CharacterMapping("/", SDL_SCANCODE_SLASH, FALSE, FALSE),
      CharacterMapping(";", SDL_SCANCODE_SEMICOLON, FALSE, FALSE),
      CharacterMapping("'", SDL_SCANCODE_APOSTROPHE, FALSE, FALSE),
      CharacterMapping("-", SDL_SCANCODE_MINUS, FALSE, FALSE),
      CharacterMapping("=", SDL_SCANCODE_EQUALS, FALSE, FALSE),
      CharacterMapping("[", SDL_SCANCODE_LEFTBRACKET, FALSE, FALSE),
      CharacterMapping("]", SDL_SCANCODE_RIGHTBRACKET, FALSE, FALSE),
      CharacterMapping("\\", SDL_SCANCODE_BACKSLASH, FALSE, FALSE),
      CharacterMapping("\n", SDL_SCANCODE_RETURN, FALSE, FALSE),
      CharacterMapping("\t", SDL_SCANCODE_TAB, FALSE, FALSE) }

\* char_lookup[uc] after init_char_lookup(): the entry of char_map for the
\* character, or an entry with scancode 0 ("no mapping")
char_lookup(c) ==
    IF \E e \in char_map : e.ascii_char = c
    THEN CHOOSE e \in char_map : e.ascii_char = c
    ELSE CharacterMapping(c, 0, FALSE, FALSE)

\* enum MacroActionType
MACRO_KEY == "MACRO_KEY"
MACRO_WAIT == "MACRO_WAIT"

\* struct MacroAction {type, value, needs_shift, needs_ctrl}
MacroAction(type, value, needs_shift, needs_ctrl) ==
    [type |-> type, value |-> value,
     needs_shift |-> needs_shift, needs_ctrl |-> needs_ctrl]

\* static const std::unordered_map<std::string, MacroAction> macro_map
macro_map ==
    [name \in {"ENTER", "RETURN"} |-> MacroAction(MACRO_KEY, SDL_SCANCODE_RETURN, FALSE, FALSE)]
    @@ [name \in {"TAB"} |-> MacroAction(MACRO_KEY, SDL_SCANCODE_TAB, FALSE, FALSE)]
    @@ [name \in {"ESCAPE", "ESC"} |-> MacroAction(MACRO_KEY, SDL_SCANCODE_ESCAPE, FALSE, FALSE)]
    @@ [name \in {"SPACE"} |-> MacroAction(MACRO_KEY, SDL_SCANCODE_SPACE, FALSE, FALSE)]
    @@ [name \in {"BACKSPACE", "BS", "INST-DEL"} |->
            MacroAction(MACRO_KEY, SDL_SCANCODE_BACKSPACE, FALSE, FALSE)]
    @@ [name \in {"DELETE", "DEL"} |-> MacroAction(MACRO_KEY, SDL_SCANCODE_DELETE, FALSE, FALSE)]
    @@ [name \in {"UP", "CRSR-UP"} |-> MacroAction(MACRO_KEY, SDL_SCANCODE_UP, FALSE, FALSE)]
    @@ [name \in {"DOWN", "CRSR-DOWN"} |-> MacroAction(MACRO_KEY, SDL_SCANCODE_DOWN, FALSE, FALSE)]
    @@ [name \in {"LEFT", "CRSR-LEFT"} |-> MacroAction(MACRO_KEY, SDL_SCANCODE_LEFT, FALSE, FALSE)]
    @@ [name \in {"RIGHT", "CRSR-RIGHT"} |-> MacroAction(MACRO_KEY, SDL_SCANCODE_RIGHT, FALSE, FALSE)]
    @@ [name \in {"F" \o Digits[i + 1] : i \in 1..8} |->
            MacroAction(MACRO_KEY,
                        SDL_SCANCODE_F1 + (CHOOSE i \in 1..8 : name = "F" \o Digits[i + 1]) - 1,
                        FALSE, FALSE)]
    @@ [name \in {"HOME"} |-> MacroAction(MACRO_KEY, SDL_SCANCODE_HOME, FALSE, FALSE)]
    @@ [name \in {"END"} |-> MacroAction(MACRO_KEY, SDL_SCANCODE_END, FALSE, FALSE)]
    @@ [name \in {"CLR"} |-> MacroAction(MACRO_KEY, SDL_SCANCODE_HOME, TRUE, FALSE)]
    @@ [name \in {"BLACK"} |-> MacroAction(MACRO_KEY, DigitScancode("2"), FALSE, TRUE)]
    @@ [name \in {"WHITE"} |-> MacroAction(MACRO_KEY, DigitScancode("9"), FALSE, TRUE)]
    @@ [name \in {"RED"} |-> MacroAction(MACRO_KEY, DigitScancode("3"), FALSE, TRUE)]
    @@ [name \in {"CYAN"} |-> MacroAction(MACRO_KEY, DigitScancode("4"), FALSE, TRUE)]
    @@ [name \in {"PURPLE"} |-> MacroAction(MACRO_KEY, DigitScancode("5"), FALSE, TRUE)]
    @@ [name \in {"GREEN"} |-> MacroAction(MACRO_KEY, DigitScancode("6"), FALSE, TRUE)]
    @@ [name \in {"BLUE"} |-> MacroAction(MACRO_KEY, DigitScancode("7"), FALSE, TRUE)]
    @@ [name \in {"YELLOW"} |-> MacroAction(MACRO_KEY, DigitScancode("8"), FALSE, TRUE)]
    @@ [name \in {"HEART"} |->
            MacroAction(MACRO_KEY, LetterScancode(IndexIn(UpperCase, "S")), TRUE, FALSE)]
    @@ [name \in {"SPADE"} |->
            MacroAction(MACRO_KEY, LetterScancode(IndexIn(UpperCase, "A")), TRUE, FALSE)]
    @@ [name \in {"CLUB"} |->
            MacroAction(MACRO_KEY, LetterScancode(IndexIn(UpperCase, "X")), TRUE, FALSE)]
    @@ [name \in {"DIAMOND"} |->
            MacroAction(MACRO_KEY, LetterScancode(IndexIn(UpperCase, "Z")), TRUE, FALSE)]

\* The entries of char_lookup the model keeps, in index order: a character
\* mapped with shift (0x21), one mapped without (0x61), one without mapping
\* (0x7E).  The other entries of the 128 are written by the same two loops.
TableChars == <<"!", "a", "~">>

\* the same characters in the order in which char_map lists them
MapOrder == <<"a", "!">>

\* an entry of the zero-initialised static array before init_char_lookup
ZeroEntry == CharacterMapping("<0x00>", 0, FALSE, FALSE)

\* char_lookup[i].scancode = 0;  // 0 means no mapping
NoMapping(c) == CharacterMapping(c, 0, FALSE, FALSE)

\* the table before and after init_char_lookup()
ZeroLookup == [c \in Range(TableChars) |-> ZeroEntry]
InitializedLookup == [c \in Range(TableChars) |-> char_lookup(c)]

(* ---------------------------------------------------------------------- *)
(* strtod and the double arithmetic of the dynamic wait macro              *)
(* ---------------------------------------------------------------------- *)
\* A double's significand has 53 bits, more than an integer of the model
\* checker holds; natural numbers of that size are kept as little-endian
\* sequences of 10-bit limbs, without leading zero limbs.
DBL_MANT_DIG == 53
LimbBase == 2^10

RECURSIVE BigOf(_)
BigOf(n) == IF n = 0 THEN <<>> ELSE <<n % LimbBase>> \o BigOf(n \div LimbBase)

\* a * k + carry, for a small k >= 1
RECURSIVE BigMulAdd(_, _, _)
BigMulAdd(a, k, carry) ==
    IF a = <<>> THEN BigOf(carry)
    ELSE LET v == Head(a) * k + carry
         IN  <<v % LimbBase>> \o BigMulAdd(Tail(a), k, v \div LimbBase)

RECURSIVE BigTrim(_)
BigTrim(a) ==
    IF a # <<>> /\ a[Len(a)] = 0 THEN BigTrim(SubSeq(a, 1, Len(a) - 1)) ELSE a

\* quotient (with leading zero limbs) and remainder of a by a small d
RECURSIVE BigDivLimbs(_, _)
BigDivLimbs(a, d) ==
    IF a = <<>> THEN [q |-> <<>>, r |-> 0]
    ELSE LET hi == BigDivLimbs(Tail(a), d)
             v == hi.r * LimbBase + Head(a)
         IN  [q |-> <<v \div d>> \o hi.q, r |-> v % d]

BigDivMod(a, d) ==
    LET x == BigDivLimbs(a, d) IN [q |-> BigTrim(x.q), r |-> x.r]

RECURSIVE BitLength(_)
BitLength(n) == IF n = 0 THEN 0 ELSE 1 + BitLength(n \div 2)

BigBits(a) == IF a = <<>> THEN 0 ELSE 10 * (Len(a) - 1) + BitLength(a[Len(a)])

\* a * 2^s
BigShl(a, s) ==
    IF a = <<>> THEN <<>>
    ELSE [i \in 1..(s \div 10) |-> 0] \o BigMulAdd(a, 2^(s % 10), 0)

\* floor(a / 2^s)
BigShr(a, s) ==
    IF s \div 10 >= Len(a) THEN <<>>
    ELSE BigDivMod(SubSeq(a, (s \div 10) + 1, Len(a)), 2^(s % 10)).q

RECURSIVE BigToInt(_)
BigToInt(a) == IF a = <<>> THEN 0 ELSE Head(a) + LimbBase * BigToInt(Tail(a))

\* round-to-nearest, ties-to-even, of q + r/d
RoundNearestEven(q, r, d) ==
    IF 2 * r > d \/ (2 * r = d /\ q # <<>> /\ Head(q) % 2 = 1)
    THEN BigMulAdd(q, 1, 1)
    ELSE q

\* the double nearest to num / den (num, den >= 1), as sig * 2^(-scale)
\* with 2^52 <= sig <= 2^53
DoubleOfRatio(num, den) ==
    LET s0 == DBL_MANT_DIG - 1 - BitLength(num) + BitLength(den)
        scale == IF BigBits(BigDivMod(BigShl(BigOf(num), s0), den).q) >= DBL_MANT_DIG
                 THEN s0 ELSE s0 + 1
        x == BigDivMod(BigShl(BigOf(num), scale), den)
    IN  [sig |-> RoundNearestEven(x.q, x.r, den), scale |-> scale]

\* the double product x * k for a small integer k >= 1
DoubleTimes(x, k) ==
    LET p == BigMulAdd(x.sig, k, 0)
        t == IF BigBits(p) > DBL_MANT_DIG THEN BigBits(p) - DBL_MANT_DIG ELSE 0
        y == BigDivMod(p, 2^t)
    IN  [sig |-> RoundNearestEven(y.q, y.r, 2^t), scale |-> x.scale - t]

\* (uint32_t)x for a double x >= 0 within the range of uint32_t: the
\* integer part
DoubleToUint(x) ==
    IF x.scale >= 0 THEN BigToInt(BigShr(x.sig, x.scale))
    ELSE BigToInt(BigShl(x.sig, 0 - x.scale))

\* the longest prefix of cs made of decimal digits
RECURSIVE DigitPrefix(_)
DigitPrefix(cs) ==
    IF cs # <<>> /\ IsDigit(Head(cs)) THEN <<Head(cs)>> \o DigitPrefix(Tail(cs))
    ELSE <<>>

\* the number a sequence of decimal digits denotes
RECURSIVE DecimalValue(_)
DecimalValue(ds) ==
    IF ds = <<>> THEN 0
    ELSE 10 * DecimalValue(SubSeq(ds, 1, Len(ds) - 1)) + DigitValue(ds[Len(ds)])

\* strtod(time_str, &endptr) on a string of macro-name characters: an
\* optional '-', digits, optionally '.' and digits, at least one digit in
\* all.  (The texts of this model hold no exponent, hexadecimal, INF or NAN
\* form.)  converted is endptr != time_str; the value is
\* (-1)^negative * digits / 10^fraction.
strtod(time_str) ==
    LET negative == time_str # <<>> /\ Head(time_str) = "-"
        body == IF negative THEN Tail(time_str) ELSE time_str
        ip == DigitPrefix(body)
        rest == SubSeq(body, Len(ip) + 1, Len(body))
        fp == IF rest # <<>> /\ Head(rest) = "." THEN DigitPrefix(Tail(rest)) ELSE <<>>
    IN  [converted |-> ip \o fp # <<>>,
         negative |-> negative,
         digits |-> DecimalValue(ip \o fp),
         fraction |-> Len(fp)]

\* time_value < 0
IsNegative(v) == v.negative /\ v.digits # 0

\* (uint32_t)time_value
WaitMilliseconds(v) == v.digits

\* (uint32_t)(time_value * 1000.0)
WaitFromSeconds(v) ==
    IF v.digits = 0 THEN 0
    ELSE DoubleToUint(DoubleTimes(DoubleOfRatio(v.digits, 10^v.fraction), 1000))

(* ---------------------------------------------------------------------- *)
(* parse_macro and translate_ascii_to_events                               *)
(* ---------------------------------------------------------------------- *)
KEY_EVENT_MIN_DELAY_MS == 5
KEY_EVENT_UP_DELAY_MS == 10

\* enum class DisplayMode
DisplayMode_PETSCII == "PETSCII"
DisplayMode_ASCII == "ASCII"

\* The translation state: the events added to the queue so far and the two
\* locals shift_down and ctrl_down of translate_ascii_to_events, which
\* parse_macro receives by reference.
TranslationState(events, shift_down, ctrl_down) ==
    [events |-> events, shift_down |-> shift_down, ctrl_down |-> ctrl_down]

\* queue->add_event(type, code, is_down, wait_ms): the argument is converted
\* to the unsigned wait_ms of the event
add_event(st, type, code, is_down, wait_ms) ==
    [st EXCEPT !.events = Append(@, InputEvent(type, is_down, code,
                                               wait_ms % UINT_MODULUS))]

\* valid macro characters: letters, numbers, underscore, hyphen, period
IsMacroChar(c) == IsUpper(c) \/ IsLower(c) \/ IsDigit(c) \/ c \in {"_", "-", "."}

\* if (c >= 'a' && c <= 'z') c = c - 'a' + 'A';
ToUpper(c) == IF IsLower(c) THEN UpperCase[IndexIn(LowerCase, c)] ELSE c

\* while (end_pos < input.length()) { if (!valid) break; end_pos++; }
RECURSIVE MacroEnd(_, _)
MacroEnd(input, end_pos) ==
    IF end_pos < Len(input) /\ IsMacroChar(input[end_pos + 1])
    THEN MacroEnd(input, end_pos + 1)
    ELSE end_pos

\* mutation: a modifier event is added whenever the key needs the modifier
ModifierChangeWhenNeeded(needs, down) == needs

\* if (needs_shift != shift_down), if (needs_ctrl != ctrl_down)
ModifierChange(needs, down) == needs # down

\* the SHIFT key state change of a key that needs (or does not need) shift
SetShift(st, needs_shift) ==
    IF ModifierChange(needs_shift, st.shift_down)
    THEN [add_event(st, INPUT_TYPE_KEYBOARD, SDL_SCANCODE_LSHIFT,
                    IF needs_shift THEN 1 ELSE 0, KEY_EVENT_MIN_DELAY_MS)
            EXCEPT !.shift_down = needs_shift]
    ELSE st

\* the CTRL key state change (LALT stands for the Commodore key)
SetCtrl(st, needs_ctrl) ==
    IF ModifierChange(needs_ctrl, st.ctrl_down)
    THEN [add_event(st, INPUT_TYPE_KEYBOARD, SDL_SCANCODE_LALT,
                    IF needs_ctrl THEN 1 ELSE 0, KEY_EVENT_MIN_DELAY_MS)
            EXCEPT !.ctrl_down = needs_ctrl]
    ELSE st

\* mutation: the key release is not added
KeyPressOnly(st, scancode, typing_rate_ms) ==
    add_event(st, INPUT_TYPE_KEYBOARD, scancode, 1, typing_rate_ms)

\* the key press with the typing rate, then the key release
KeyPressRelease(st, scancode, typing_rate_ms) ==
    add_event(add_event(st, INPUT_TYPE_KEYBOARD, scancode, 1, typing_rate_ms),
              INPUT_TYPE_KEYBOARD, scancode, 0, KEY_EVENT_UP_DELAY_MS)

\* the dynamic wait macro "_<time_str>": an invalid time only logs a
\* warning; a '.' anywhere in time_str selects seconds
DynamicWait(st, time_str) ==
    LET time_value == strtod(time_str) IN
    IF ~time_value.converted \/ IsNegative(time_value)
    THEN st
    ELSE add_event(st, INPUT_TYPE_WAIT, 0, 0,
                   IF "." \in Range(time_str)
                   THEN WaitFromSeconds(time_value)
                   ELSE WaitMilliseconds(time_value))

\* the table entry of a macro name: a wait, or a key with its modifiers
MacroEvents(st, action, typing_rate_ms) ==
    IF action.type = MACRO_WAIT
    THEN add_event(st, INPUT_TYPE_WAIT, 0, 0, action.value)
    ELSE KeyPressRelease(SetCtrl(SetShift(st, action.needs_shift), action.needs_ctrl),
                         action.value, typing_rate_ms)

\* parse_macro(input, start_pos, queue, typing_rate_ms, shift_down,
\* ctrl_down): the number of characters consumed and the translation state
\* it leaves.  Positions are those of the code (the first character is 0).
parse_macro(input, start_pos, st, typing_rate_ms) ==
    IF start_pos >= Len(input)
    THEN [consumed |-> 0, st |-> st]
    ELSE LET end_pos == MacroEnd(input, start_pos)
             macro_name == [i \in 1..(end_pos - start_pos) |-> ToUpper(input[start_pos + i])]
         IN  IF end_pos = start_pos
             THEN [consumed |-> 0, st |-> st]
             ELSE IF Len(macro_name) > 1 /\ macro_name[1] = "_"
             THEN [consumed |-> end_pos - start_pos,
                   st |-> DynamicWait(st, Tail(macro_name))]
             ELSE IF Str(macro_name) \notin DOMAIN macro_map
             THEN [consumed |-> end_pos - start_pos, st |-> st]
             ELSE [consumed |-> end_pos - start_pos,
                   st |-> MacroEvents(st, macro_map[Str(macro_name)], typing_rate_ms)]

\* mutation: an upper-case letter needs shift in every display mode
NeedsShiftAnyMode(mapping, c, display_mode) == mapping.needs_shift \/ IsUpper(c)

\* bool needs_shift = mapping->needs_shift ||
\*     (mode == DisplayMode::ASCII && (c >= 'A' && c <= 'Z'));
NeedsShift(mapping, c, display_mode) ==
    mapping.needs_shift \/ (display_mode = DisplayMode_ASCII /\ IsUpper(c))

\* the position the for loop continues at after the macro that starts
\* behind the backtick at position i: behind the consumed name and its
\* closing backtick, or behind one character if nothing was consumed
AfterMacro(input, i, consumed) ==
    LET last == IF consumed > 0 THEN i + consumed ELSE i + 1
    IN  IF consumed > 0 /\ last + 1 < Len(input) /\ input[last + 2] = Backtick
        THEN last + 2
        ELSE last + 1

\* mutation: only the bytes above 127 are skipped
NoMappingFoundHighOnly(c) == c \in HighBytes

\* if (uc >= 128 || char_lookup[uc].scancode == 0) continue;
NoMappingFound(c) == c \in HighBytes \/ char_lookup(c).scancode = 0

\* for (size_t i = 0; i < input.length(); i++) { ... }
RECURSIVE TranslateLoop(_, _, _, _, _)
TranslateLoop(input, i, st, typing_rate_ms, display_mode) ==
    IF i >= Len(input) THEN st
    ELSE LET c == input[i + 1] IN
         IF c = Backtick
         THEN IF i + 1 >= Len(input)
              THEN st
              ELSE LET r == parse_macro(input, i + 1, st, typing_rate_ms)
                   IN  TranslateLoop(input, AfterMacro(input, i, r.consumed), r.st,
                                     typing_rate_ms, display_mode)
         ELSE IF NoMappingFound(c)
         THEN TranslateLoop(input, i + 1, st, typing_rate_ms, display_mode)
         ELSE LET mapping == char_lookup(c)
                  held == SetCtrl(SetShift(st, NeedsShift(mapping, c, display_mode)),
                                  mapping.needs_ctrl)
              IN  TranslateLoop(input, i + 1,
                                KeyPressRelease(held, mapping.scancode, typing_rate_ms),
                                typing_rate_ms, display_mode)

\* mutation: only the shift key is released at the end
ReleaseModifiersShiftOnly(st) ==
    IF st.shift_down
    THEN add_event(st, INPUT_TYPE_KEYBOARD, SDL_SCANCODE_LSHIFT, 0, KEY_EVENT_MIN_DELAY_MS)
    ELSE st

\* release any remaining modifier keys at the end
ReleaseModifiers(st) ==
    LET s1 == IF st.shift_down
              THEN add_event(st, INPUT_TYPE_KEYBOARD, SDL_SCANCODE_LSHIFT, 0,
                             KEY_EVENT_MIN_DELAY_MS)
              ELSE st
    IN  IF st.ctrl_down
        THEN add_event(s1, INPUT_TYPE_KEYBOARD, SDL_SCANCODE_LALT, 0,
                       KEY_EVENT_MIN_DELAY_MS)
        ELSE s1

\* mutation: the queue pointer is not checked
translate_unchecked(input, q, typing_rate_ms, display_mode) ==
    [success |-> TRUE,
     events |-> ReleaseModifiers(
                    TranslateLoop(input, 0, TranslationState(q.events, FALSE, FALSE),
                                  typing_rate_ms, display_mode)).events]

\* translate_ascii_to_events(input, queue, typing_rate_ms, mode) with the
\* queue pointer q: the value returned and the events of the queue
translate_ascii_to_events(input, q, typing_rate_ms, display_mode) ==
    IF IsNull(q)
    THEN [success |-> FALSE, events |-> <<>>]
    ELSE [success |-> TRUE,
          events |-> ReleaseModifiers(
                         TranslateLoop(input, 0,
                                       TranslationState(q.events, FALSE, FALSE),
                                       typing_rate_ms, display_mode)).events]

(* ---------------------------------------------------------------------- *)
(* Text requests: translate_ascii_to_events called on a text, directly     *)
(* and by the POST /keyboard handler                                       *)
(* ---------------------------------------------------------------------- *)
\* the pieces the texts of the model are put together from: literal
\* characters (mapped without modifier, upper case, mapped with shift,
\* without mapping, two in a row, a byte above 127 behind a letter), a lone
\* backtick, and macro tokens (keys without
\* modifier, with shift and with ctrl, an unknown name, waits in
\* milliseconds and in seconds, a negative and an unparsable wait, raw
\* scancode literals in and out of range, a token without closing backtick)
PiecePool ==
    { <<"a">>, <<"A">>, <<"!">>, <<"~">>, <<"a", "!">>,
      <<Backtick>>,
      <<Backtick, "U", "P", Backtick>>,
      <<Backtick, "c", "l", "r", Backtick>>,
      <<Backtick, "R", "E", "D", Backtick>>,
      <<Backtick, "F", "O", "O", Backtick>>,
      <<Backtick, "_", "5", "0", "0", Backtick>>,
      <<Backtick, "_", "2", ".", "0", "1", Backtick>>,
      <<Backtick, "_", "-", "1", Backtick>>,
      <<Backtick, "_", "q", Backtick>>,
      <<Backtick, "K", "6", "5", Backtick>>,
      <<Backtick, "K", "2", "5", "6", Backtick>>,
      <<Backtick, "U", "P">>,
      <<"A", "<0xE9>">> }

\* the concatenation of a sequence of pieces
RECURSIVE Flatten(_)
Flatten(ps) == IF ps = <<>> THEN <<>> ELSE Head(ps) \o Flatten(Tail(ps))

\* the input strings of the model
Texts == { Flatten(ps) : ps \in SeqsUpTo(PiecePool, MaxPieces) }

DisplayModes == {DisplayMode_PETSCII, DisplayMode_ASCII}

\* the typing rate of a request: absent, or an integer
NoRate == [present |-> FALSE, value |-> 0]
Rate(n) == [present |-> TRUE, value |-> n]
RatePool == {NoRate, Rate(-1), Rate(0), Rate(29), Rate(45)}

\* no call of translate_ascii_to_events has returned yet
NoCall == [called |-> FALSE, null |-> FALSE, success |-> FALSE, events |-> <<>>]

\* the call with the queue pointer q has returned r
Returned(q, r) ==
    [called |-> TRUE, null |-> q.null, success |-> r.success, events |-> r.events]

\* InputEventQueue* create_input_queue(): a new, empty queue
create_input_queue == QueuePtr(<<>>)

(* ---------------------------------------------------------------------- *)
(* Single-threaded use: every call runs to completion                      *)
(* ---------------------------------------------------------------------- *)
\* events of the pending queues that have not fired yet
Remaining == SubSeq(Concat(g_pending_queues), g_current_event_index + 1,
                    Len(Concat(g_pending_queues)))

(* ---------------------------------------------------------------------- *)
(* The legacy circular character queue of keyboard.c                       *)
(* ---------------------------------------------------------------------- *)
\* #define MCP_KEYBOARD_QUEUE_SIZE 4096: the model keeps the same ring
\* arithmetic over an array of four cells (three characters fit)
MCP_KEYBOARD_QUEUE_SIZE == 4

\* static const uint32_t KEY_INJECT_DELAY_MS = 10;
KEY_INJECT_DELAY_MS == 10

\* the number of slots of the emulated keyboard buffer, and the number of
\* used slots above which nothing is injected:
\* (16 + kbd_head - kbd_tail) % 16, if (kbd_used > 10) return;
KBD_BUFFER_SLOTS == 16
KBD_USED_LIMIT == 10

\* the content of a cell of the zero-initialised static array
NUL == "<0x00>"

\* a const char* argument: the null pointer, or a C string
NullText == [null |-> TRUE, chars |-> <<>>]
CStr(cs) == [null |-> FALSE, chars |-> cs]

\* the legacy queue's statics as one value, with the characters it returned
\* (got) and the i2c_kbd_buffer_add calls it made (sent) in one call
Leg == [q    |-> mcp_keyboard_queue,
        head |-> mcp_queue_head,
        tail |-> mcp_queue_tail,
        last |-> last_key_inject_time,
        got  |-> <<>>,
        sent |-> <<>>]

\* return mcp_queue_head != mcp_queue_tail;
mcp_keyboard_queue_has_data(l) == l.head # l.tail

\* (MCP_KEYBOARD_QUEUE_SIZE + mcp_queue_tail - mcp_queue_head - 1)
\*     % MCP_KEYBOARD_QUEUE_SIZE
available_space(l) ==
    (MCP_KEYBOARD_QUEUE_SIZE + l.tail - l.head - 1) % MCP_KEYBOARD_QUEUE_SIZE

\* for (i = 0; i < text_len; i++) { queue[head] = text[i];
\*     head = (head + 1) % SIZE; if (head == tail) return false; }
\* return true;
RECURSIVE AddChars(_, _)
AddChars(l, cs) ==
    IF cs = <<>>
    THEN [l |-> l, ok |-> TRUE]
    ELSE LET n == [l EXCEPT !.q[l.head] = Head(cs),
                            !.head = (l.head + 1) % MCP_KEYBOARD_QUEUE_SIZE]
         IN  IF n.head = n.tail
             THEN [l |-> n, ok |-> FALSE]
             ELSE AddChars(n, Tail(cs))

\* mutation: the text is not compared with the free space
FitsAlways(text_len, space) == TRUE

\* if (text_len > available_space) return false;
Fits(text_len, space) == ~(text_len > space)

\* mcp_keyboard_queue_add_text(text) (keyboard_add_text is a wrapper)
mcp_keyboard_queue_add_text(l, t) ==
    IF t.null
    THEN [l |-> l, ok |-> FALSE]
    ELSE IF Len(t.chars) = 0
    THEN [l |-> l, ok |-> TRUE]
    ELSE IF ~Fits(Len(t.chars), available_space(l))
    THEN [l |-> l, ok |-> FALSE]
    ELSE AddChars(l, t.chars)

\* mcp_keyboard_queue_get_next(): 0 if the queue is empty, else the
\* character at the tail
mcp_keyboard_queue_get_next(l) ==
    IF l.head = l.tail
    THEN [l |-> l, c |-> NUL]
    ELSE [l |-> [l EXCEPT !.tail = (l.tail + 1) % MCP_KEYBOARD_QUEUE_SIZE,
                          !.got = Append(@, l.q[l.tail])],
          c |-> l.q[l.tail]]

\* return (MCP_KEYBOARD_QUEUE_SIZE + mcp_queue_head - mcp_queue_tail)
\*     % MCP_KEYBOARD_QUEUE_SIZE;
keyboard_get_queue_size(l) ==
    (MCP_KEYBOARD_QUEUE_SIZE + l.head - l.tail) % MCP_KEYBOARD_QUEUE_SIZE

\* ascii_to_x16_keycode(c) for the characters of the model: letters are
\* folded to upper case, 'A' is key 31, '1' is key 2, '!' and every
\* character the switch does not list give 0
ascii_to_x16_keycode(ch) ==
    LET c == ToUpper(ch)
    IN  IF c = "A" THEN 31
        ELSE IF c = "1" THEN 2
        ELSE 0

\* keycode | 0x80 on a uint8_t
ReleaseCode(keycode) == (keycode % 128) + 128

\* int kbd_used = (16 + kbd_head - kbd_tail) % 16;
kbd_used(kbd_head, kbd_tail) == (KBD_BUFFER_SLOTS + kbd_head - kbd_tail) % KBD_BUFFER_SLOTS

\* mutation: the time of the last injection is not compared with the clock
TooSoonNever(current_time, last) == FALSE

\* if (current_time - last_key_inject_time < KEY_INJECT_DELAY_MS) return;
TooSoon(current_time, last) ==
    ((current_time - last) % UINT_MODULUS) < KEY_INJECT_DELAY_MS

\* mutation: the emulated keyboard buffer is not looked at
BufferBusyNever(used) == FALSE

\* if (kbd_used > 10) return;
BufferBusy(used) == used > KBD_USED_LIMIT

\* char c = mcp_keyboard_queue_get_next(); if (c != 0) { keycode = ...;
\* if (keycode != 0) { i2c_kbd_buffer_add(keycode);
\* i2c_kbd_buffer_add(keycode | 0x80); last_key_inject_time = current_time; } }
InjectNext(l, current_time) ==
    LET g == mcp_keyboard_queue_get_next(l)
        keycode == ascii_to_x16_keycode(g.c)
    IN  IF g.c # NUL /\ keycode # 0
        THEN [g.l EXCEPT !.sent = @ \o <<keycode, ReleaseCode(keycode)>>,
                         !.last = current_time]
        ELSE g.l

\* the part of keyboard_process_mcp_queue behind the call of
\* process_input_event_queues, with SDL_GetTicks() = current_time and the
\* emulated keyboard buffer's kbd_head and kbd_tail
process_legacy_queue(l, current_time, kbd_head, kbd_tail) ==
    IF ~mcp_keyboard_queue_has_data(l) THEN l
    ELSE IF TooSoon(current_time, l.last) THEN l
    ELSE IF BufferBusy(kbd_used(kbd_head, kbd_tail)) THEN l
    ELSE InjectNext(l, current_time)

\* keyboard_process_mcp_queue(): the timed event queues first, then the
\* legacy queue
keyboard_process_mcp_queue(m, l, current_time, kbd_head, kbd_tail) ==
    [m |-> process_input_event_queues(m, current_time),
     l |-> process_legacy_queue(l, current_time, kbd_head, kbd_tail)]

\* static storage at program start
InitLegacy ==
    /\ mcp_keyboard_queue = [i \in 0..(MCP_KEYBOARD_QUEUE_SIZE - 1) |-> NUL]
    /\ mcp_queue_head = 0
    /\ mcp_queue_tail = 0
    /\ last_key_inject_time = 0
    /\ kbd_added = <<>>
    /\ legacyAdded = <<>>
    /\ legacyRemoved = <<>>
    /\ nAddCalls = 0

(* ---------------------------------------------------------------------- *)
(* x16_buffer_t (x16_buffer.c)                                             *)
(* ---------------------------------------------------------------------- *)
\* a byte that malloc or realloc hands out without a defined value
Garbage == "<garbage>"

\* the outcome of a malloc or realloc call: it fails, or it returns memory
\* whose fresh bytes hold fill
MemFails == [ok |-> FALSE, fill |-> NUL]
MemGives(fill) == [ok |-> TRUE, fill |-> fill]
MemPool == {MemFails, MemGives(NUL), MemGives(Garbage)}

\* typedef struct { char* data; size_t size; size_t capacity; } x16_buffer_t:
\* allocated is data != NULL, bytes are the capacity bytes data points to
X16Buffer(allocated, bytes, size, capacity) ==
    [allocated |-> allocated, bytes |-> bytes, size |-> size, capacity |-> capacity]

\* x16_buffer_init: data = NULL; size = 0; capacity = 0;
x16_buffer_init == X16Buffer(FALSE, <<>>, 0, 0)

\* the outcome of a call: the buffer after it and the value returned
Outcome(b, ok) == [b |-> b, ok |-> ok]

\* data[i] = byte, for a 0-based index i inside the allocation
Poke(bytes, i, byte) == [bytes EXCEPT ![i + 1] = byte]

\* n bytes: the bytes of old that fit, then fresh bytes
Realloc(old, n, fill) == [i \in 1..n |-> IF i <= Len(old) THEN old[i] ELSE fill]

\* x16_buffer_alloc(buffer, capacity)
x16_buffer_alloc(b, capacity, mem) ==
    IF capacity = 0
    THEN Outcome(b, FALSE)
    ELSE IF ~mem.ok
    THEN Outcome(X16Buffer(FALSE, <<>>, 0, 0), FALSE)
    ELSE Outcome(X16Buffer(TRUE, Poke(Realloc(<<>>, capacity, mem.fill), 0, NUL),
                           0, capacity),
                 TRUE)

\* if (buffer->size > new_capacity) buffer->size = new_capacity;
ShrunkSize(size, new_capacity) == IF size > new_capacity THEN new_capacity ELSE size

\* mutation: the terminator is not written behind the data
TerminateNot(bytes, size, capacity) == bytes

\* if (buffer->size < buffer->capacity) buffer->data[buffer->size] = '\0';
Terminate(bytes, size, capacity) ==
    IF size < capacity THEN Poke(bytes, size, NUL) ELSE bytes

\* x16_buffer_resize(buffer, new_capacity)
x16_buffer_resize(b, new_capacity, mem) ==
    IF new_capacity = 0
    THEN Outcome(b, FALSE)
    ELSE IF ~b.allocated
    THEN x16_buffer_alloc(b, new_capacity, mem)
    ELSE IF new_capacity = b.capacity
    THEN Outcome(b, TRUE)
    ELSE IF ~mem.ok
    THEN Outcome(b, FALSE)
    ELSE LET size == ShrunkSize(b.size, new_capacity)
         IN  Outcome(X16Buffer(TRUE,
                               Terminate(Realloc(b.bytes, new_capacity, mem.fill),
                                         size, new_capacity),
                               size, new_capacity),
                     TRUE)

\* size_t new_capacity = capacity + capacity / 2;
\* if (new_capacity < required_capacity) new_capacity = required_capacity;
GrownCapacity(capacity, required_capacity) ==
    IF capacity + (capacity \div 2) < required_capacity
    THEN required_capacity
    ELSE capacity + (capacity \div 2)

\* memcpy(buffer->data + buffer->size, data, len)
Memcpy(bytes, at, data, len) ==
    [i \in 1..Len(bytes) |-> IF i > at /\ i <= at + len THEN data[i - at] ELSE bytes[i]]

\* the tail of x16_buffer_append: copy, advance size, terminate
AppendBytes(b, data, len) ==
    Outcome(X16Buffer(TRUE,
                      Terminate(Memcpy(b.bytes, b.size, data, len),
                                b.size + len, b.capacity),
                      b.size + len, b.capacity),
            TRUE)

\* x16_buffer_append(buffer, data, len): d is NullText or the bytes data
\* points to
x16_buffer_append(b, d, len, mem) ==
    IF d.null \/ len = 0
    THEN Outcome(b, FALSE)
    ELSE IF b.size + len + 1 > b.capacity
    THEN LET r == x16_buffer_resize(b, GrownCapacity(b.capacity, b.size + len + 1), mem)
         IN  IF ~r.ok THEN Outcome(r.b, FALSE) ELSE AppendBytes(r.b, d.chars, len)
    ELSE AppendBytes(b, d.chars, len)

\* buffer->size = 0; if (buffer->data && buffer->capacity > 0) data[0] = '\0';
ClearBytes(b) ==
    [b EXCEPT !.size = 0,
              !.bytes = IF b.allocated /\ b.capacity > 0 THEN Poke(@, 0, NUL) ELSE @]

\* x16_buffer_set(buffer, data, len)
x16_buffer_set(b, d, len, mem) ==
    IF d.null \/ len = 0
    THEN Outcome(ClearBytes(b), TRUE)
    ELSE x16_buffer_append([b EXCEPT !.size = 0], d, len, mem)

\* x16_buffer_clear(buffer)
x16_buffer_clear(b) == ClearBytes(b)

\* after x16_buffer_init
InitBuffer ==
    /\ buffer = x16_buffer_init
    /\ bufCalls = <<>>

\* a request thread's position: outside translate_ascii_to_events, or at a
\* statement of it or of init_char_lookup (with the loop index)
At(at, i) == [at |-> at, i |-> i]
RequestThreads == 1..MaxThreads

\* no table entry read yet
NotRead == [c |-> "", entry |-> ZeroEntry]

\* static storage at program start
InitLookup ==
    /\ lookup_initialized = FALSE
    /\ lookup = ZeroLookup
    /\ pcReq = [t \in RequestThreads |-> At("idle", 0)]
    /\ entryRead = [t \in RequestThreads |-> NotRead]

InitManager ==
    /\ g_pending_queues = <<>>
    /\ g_current_event_index = 0
    /\ g_last_event_time = 0
    /\ g_elapsed_time = 0
    /\ g_processing_active = FALSE
    /\ ticks = UINT_MODULUS - WrapLead
    /\ age = 0
    /\ fired = <<>>
    /\ submitted = <<>>
    /\ activatedAt = 0
    /\ nSubmits = 0
    /\ nEvents = 0
    /\ sink = <<>>
    /\ errorLogged = FALSE
    /\ deleted = <<>>
    /\ pcMain = "idle"
    /\ pcHttp = "idle"
    /\ current_queue = NullQueue
    /\ queue = NullQueue

Init ==
    /\ InitManager
    /\ text = <<>>
    /\ mode = DisplayMode_PETSCII
    /\ typing_rate = NoRate
    /\ translation = NoCall
    /\ response = "none"
    /\ InitLookup
    /\ InitLegacy
    /\ InitBuffer

\* the record of a destroyed queue: the queue and who deleted it, the drain
\* tick ("tick") or the request handler ("handler")
Destroyed(q, by) == [q |-> q, by |-> by]

\* the globals take the values of the manager value m
SetGlobals(m) ==
    /\ g_pending_queues' = m.pending
    /\ g_current_event_index' = m.idx
    /\ g_last_event_time' = m.last
    /\ g_elapsed_time' = m.elapsed
    /\ g_processing_active' = m.active

\* SDL_GetTicks() advances by d milliseconds
AdvanceClock(d) ==
    /\ age + d <= MaxAge
    /\ ticks' = (ticks + d) % UINT_MODULUS
    /\ age' = age + d
    /\ UNCHANGED <<mgrVars, histVars, threadVars, reqVars,
                   lookVars, legVars, bufVars>>

\* the request handler calls submit_input_queue(q) with a queue it built
Submit(q) ==
    /\ nSubmits < MaxSubmits
    /\ nEvents + Len(q.events) <= MaxEvents
    /\ age + SumWait(Remaining) + SumWait(q.events) <= MaxAge
    /\ \E m \in {submit_input_queue(Mgr, q, ticks)} :
       /\ SetGlobals(m)
       /\ IF ShouldActivate([Mgr EXCEPT !.pending = Append(@, q)])
          THEN /\ fired' = <<>>
               /\ submitted' = <<q>>
               /\ deleted' = <<>>
               /\ activatedAt' = ticks
          ELSE /\ submitted' = Append(submitted, q)
               /\ UNCHANGED <<fired, deleted, activatedAt>>
    /\ nSubmits' = nSubmits + 1
    /\ nEvents' = nEvents + Len(q.events)
    /\ UNCHANGED <<reqVars, ticks, age, sink, errorLogged, threadVars, lookVars, legVars, bufVars>>

\* a caller hands submit_input_queue a null pointer
SubmitNull ==
    /\ SetGlobals(submit_input_queue(Mgr, NullQueue, ticks))
    /\ errorLogged' = TRUE
    /\ UNCHANGED <<reqVars, ticks, age, fired, submitted, activatedAt, nSubmits, nEvents,
                   sink, threadVars,
                   deleted, lookVars, legVars, bufVars>>

\* the main loop calls process_input_event_queues (via
\* keyboard_process_mcp_queue) once
Tick ==
    /\ \E m \in {process_input_event_queues(Mgr, ticks)} :
       /\ SetGlobals(m)
       /\ fired' = fired \o [i \in 1..Len(m.fired) |-> m.fired[i].ev]
       /\ sink' = sink \o m.sink
       /\ deleted' = deleted \o [i \in 1..Len(m.deleted) |-> Destroyed(m.deleted[i], "tick")]
    /\ UNCHANGED <<reqVars, ticks, age, submitted, activatedAt, nSubmits, nEvents,
                   errorLogged, threadVars, lookVars, legVars, bufVars>>

Next ==
    \/ \E d \in 1..MaxStep : AdvanceClock(d)
    \/ \E q \in QueuePool : Submit(q)
    \/ SubmitNull
    \/ Tick

Spec == Init /\ [][Next]_vars

\* the main loop keeps calling keyboard_process_mcp_queue every frame and the
\* tick counter keeps advancing
SpecLive ==
    /\ Init
    /\ [][Next]_vars
    /\ WF_vars(Tick)
    /\ WF_vars(\E d \in 1..MaxStep : AdvanceClock(d))

(* ---------------------------------------------------------------------- *)
(* Threaded use: submit_input_queue on the HTTP server thread,             *)
(* process_input_event_queues on the main loop, no lock between them.      *)
(* One step per statement; the statements of the two threads interleave.   *)
(* ---------------------------------------------------------------------- *)
ConcQueuePool == { QueuePtr(es) : es \in SeqsUpTo(EventPool, MaxConcQueueLen) }

\* POST /keyboard handler: submit_input_queue(queue) is entered
HttpCall(q) ==
    /\ pcHttp = "idle"
    /\ IF q.null THEN ~errorLogged ELSE nSubmits < MaxConcSubmits
    /\ queue' = q
    /\ pcHttp' = "check"
    /\ UNCHANGED <<mgrVars, reqVars, ticks, age, histVars, pcMain, current_queue,
                   lookVars, legVars, bufVars>>

\* if (!queue) { X16_LOG_ERROR(...); return; }
HttpCheck ==
    /\ pcHttp = "check"
    /\ IF queue.null
       THEN errorLogged' = TRUE /\ pcHttp' = "idle"
       ELSE pcHttp' = "push" /\ UNCHANGED errorLogged
    /\ UNCHANGED <<mgrVars, reqVars, ticks, age, fired, submitted, activatedAt,
                   nSubmits, nEvents, sink, pcMain, current_queue, queue,
                   deleted, lookVars, legVars, bufVars>>

\* g_pending_queues.push_back(queue);
HttpPush ==
    /\ pcHttp = "push"
    /\ g_pending_queues' = Append(g_pending_queues, queue)
    /\ submitted' = Append(submitted, queue)
    /\ nSubmits' = nSubmits + 1
    /\ nEvents' = nEvents + Len(queue.events)
    /\ pcHttp' = "test"
    /\ UNCHANGED <<g_current_event_index, g_last_event_time, g_elapsed_time,
                   g_processing_active, reqVars, ticks, age, fired, activatedAt, sink,
                   errorLogged, pcMain, current_queue, queue,
                   deleted, lookVars, legVars, bufVars>>

\* if (!g_processing_active || g_pending_queues.size() == 1)
HttpTest ==
    /\ pcHttp = "test"
    /\ pcHttp' = IF ~g_processing_active \/ Len(g_pending_queues) = 1
                 THEN "set_active" ELSE "idle"
    /\ UNCHANGED <<mgrVars, reqVars, ticks, age, histVars, pcMain, current_queue, queue,
                   lookVars, legVars, bufVars>>

\* g_processing_active = true;
HttpSetActive ==
    /\ pcHttp = "set_active"
    /\ g_processing_active' = TRUE
    /\ pcHttp' = "set_index"
    /\ UNCHANGED <<g_pending_queues, g_current_event_index, g_last_event_time,
                   g_elapsed_time, reqVars, ticks, age, histVars, pcMain, current_queue,
                   queue,
                   lookVars, legVars, bufVars>>

\* g_current_event_index = 0;
HttpSetIndex ==
    /\ pcHttp = "set_index"
    /\ g_current_event_index' = 0
    /\ pcHttp' = "set_elapsed"
    /\ UNCHANGED <<g_pending_queues, g_last_event_time, g_elapsed_time,
                   g_processing_active, reqVars, ticks, age, histVars, pcMain,
                   current_queue, queue,
                   lookVars, legVars, bufVars>>

\* g_elapsed_time = 0;
HttpSetElapsed ==
    /\ pcHttp = "set_elapsed"
    /\ g_elapsed_time' = 0
    /\ pcHttp' = "set_last"
    /\ UNCHANGED <<g_pending_queues, g_current_event_index, g_last_event_time,
                   g_processing_active, reqVars, ticks, age, histVars, pcMain,
                   current_queue, queue,
                   lookVars, legVars, bufVars>>

\* g_last_event_time = SDL_GetTicks();
HttpSetLast ==
    /\ pcHttp = "set_last"
    /\ g_last_event_time' = ticks
    /\ activatedAt' = ticks
    /\ pcHttp' = "idle"
    /\ UNCHANGED <<g_pending_queues, g_current_event_index, g_elapsed_time,
                   g_processing_active, reqVars, ticks, age, fired, submitted, nSubmits,
                   nEvents, sink, errorLogged, pcMain, current_queue, queue,
                   deleted, lookVars, legVars, bufVars>>

\* process_input_event_queues is entered:
\* if (!g_processing_active || g_pending_queues.empty()) return;
MainEntry ==
    /\ pcMain = "idle"
    /\ pcMain' = IF ~g_processing_active \/ g_pending_queues = <<>>
                 THEN "idle" ELSE "time"
    /\ UNCHANGED <<mgrVars, reqVars, ticks, age, histVars, pcHttp, current_queue, queue,
                   lookVars, legVars, bufVars>>

\* g_elapsed_time += current_time - g_last_event_time;
\* g_last_event_time = current_time;
MainTime ==
    /\ pcMain = "time"
    /\ g_elapsed_time' =
          (g_elapsed_time + ((ticks - g_last_event_time) % UINT_MODULUS)) % UINT_MODULUS
    /\ g_last_event_time' = ticks
    /\ pcMain' = "while"
    /\ UNCHANGED <<g_pending_queues, g_current_event_index,
                   g_processing_active, reqVars, ticks, age, histVars, pcHttp,
                   current_queue, queue,
                   lookVars, legVars, bufVars>>

\* while (!g_pending_queues.empty()) { current_queue = g_pending_queues[0];
MainWhile ==
    /\ pcMain = "while"
    /\ IF g_pending_queues = <<>>
       THEN pcMain' = "deactivate" /\ UNCHANGED current_queue
       ELSE pcMain' = "for" /\ current_queue' = Head(g_pending_queues)
    /\ UNCHANGED <<mgrVars, reqVars, ticks, age, histVars, pcHttp, queue,
                   lookVars, legVars, bufVars>>

\* for (;;) { one iteration: leave for the erase, return, or fire the event
MainFor ==
    /\ pcMain = "for"
    /\ IF g_current_event_index >= Len(current_queue.events)
       THEN /\ pcMain' = "erase"
            /\ UNCHANGED <<g_elapsed_time, g_current_event_index, fired, sink>>
       ELSE LET event == current_queue.events[g_current_event_index + 1] IN
            IF g_elapsed_time < event.wait_ms
            THEN /\ pcMain' = "idle"
                 /\ UNCHANGED <<g_elapsed_time, g_current_event_index, fired,
                                sink>>
            ELSE /\ g_elapsed_time' = (g_elapsed_time - event.wait_ms) % UINT_MODULUS
                 /\ sink' = IF event.type = INPUT_TYPE_KEYBOARD
                            THEN Append(sink, <<event.is_down # 0, event.code>>)
                            ELSE sink
                 /\ fired' = Append(fired, event)
                 /\ g_current_event_index' = g_current_event_index + 1
                 /\ pcMain' = "for"
    /\ UNCHANGED <<g_pending_queues, g_last_event_time, g_processing_active,
                   reqVars, ticks, age, submitted, activatedAt, nSubmits, nEvents,
                   errorLogged, pcHttp, current_queue, queue,
                   deleted, lookVars, legVars, bufVars>>

\* g_pending_queues.erase(g_pending_queues.begin()); delete current_queue;
MainErase ==
    /\ pcMain = "erase"
    /\ g_pending_queues' = Tail(g_pending_queues)
    /\ deleted' = Append(deleted, Destroyed(current_queue, "tick"))
    /\ pcMain' = "reset"
    /\ UNCHANGED <<g_current_event_index, g_last_event_time, g_elapsed_time,
                   g_processing_active, reqVars, ticks, age, fired, submitted,
                   activatedAt, nSubmits, nEvents, sink, errorLogged, pcHttp,
                   current_queue, queue, lookVars, legVars, bufVars>>

\* g_current_event_index = 0; break;
MainReset ==
    /\ pcMain = "reset"
    /\ g_current_event_index' = 0
    /\ pcMain' = "while"
    /\ UNCHANGED <<g_pending_queues, g_last_event_time, g_elapsed_time,
                   g_processing_active, reqVars, ticks, age, histVars, pcHttp,
                   current_queue, queue,
                   lookVars, legVars, bufVars>>

\* g_processing_active = false;   (after the while loop)
MainDeactivate ==
    /\ pcMain = "deactivate"
    /\ g_processing_active' = FALSE
    /\ pcMain' = "idle"
    /\ UNCHANGED <<g_pending_queues, g_current_event_index, g_last_event_time,
                   g_elapsed_time, reqVars, ticks, age, histVars, pcHttp, current_queue,
                   queue,
                   lookVars, legVars, bufVars>>

NextConc ==
    \/ \E d \in 1..MaxStep : AdvanceClock(d)
    \/ \E q \in ConcQueuePool \cup {NullQueue} : HttpCall(q)
    \/ HttpCheck
    \/ HttpPush
    \/ HttpTest
    \/ HttpSetActive
    \/ HttpSetIndex
    \/ HttpSetElapsed
    \/ HttpSetLast
    \/ MainEntry
    \/ MainTime
    \/ MainWhile
    \/ MainFor
    \/ MainErase
    \/ MainReset
    \/ MainDeactivate

SpecConc == Init /\ [][NextConc]_vars

(* ---------------------------------------------------------------------- *)
(* Text requests: one text, translated by a direct call or handled by the  *)
(* POST /keyboard handler, and the drain ticks of the main loop            *)
(* ---------------------------------------------------------------------- *)
InitKbd ==
    /\ InitManager
    /\ InitLookup
    /\ InitLegacy
    /\ InitBuffer
    /\ text \in Texts
    /\ mode \in DisplayModes
    /\ typing_rate \in RatePool
    /\ translation = NoCall
    /\ response = "none"

\* if (!lookup_initialized) init_char_lookup();   run by one caller alone
CallInitCharLookup ==
    /\ lookup_initialized' = TRUE
    /\ lookup' = IF lookup_initialized THEN lookup ELSE InitializedLookup
    /\ UNCHANGED <<pcReq, entryRead>>

\* a caller translates the text into a new queue, or hands the function a
\* null pointer:
\* translate_ascii_to_events(text, q, typing_rate, mode)
Translate ==
    /\ ~translation.called
    /\ \E q \in {create_input_queue, NullQueue} :
          /\ translation' = Returned(q, translate_ascii_to_events(text, q,
                                                                 typing_rate.value, mode))
          /\ IF q.null THEN UNCHANGED lookVars ELSE CallInitCharLookup
    /\ UNCHANGED <<mgrVars, ticks, age, histVars, threadVars,
                   text, mode, typing_rate, response, legVars, bufVars>>

\* mutation: the minimum typing rate is not enforced
RequestTypingRateAsGiven(rate) == IF rate.present THEN rate.value ELSE 35

\* int typing_rate_ms = 35; taken from the request if it has one;
\* if (typing_rate_ms < 30) typing_rate_ms = 30;
RequestTypingRate(rate) ==
    LET typing_rate_ms == IF rate.present THEN rate.value ELSE 35
    IN  IF typing_rate_ms < 30 THEN 30 ELSE typing_rate_ms

\* if (translation_success) { submit_input_queue(queue); ... }
\* else { delete queue; ... }
SubmitsQueue(translation_success) == translation_success

\* server.Post("/keyboard"): a request with "text" is translated in PETSCII
\* mode into a new queue, which is submitted if the translation succeeded
\* and deleted if not
PostKeyboard ==
    /\ ~translation.called
    /\ \E r \in {translate_ascii_to_events(text, create_input_queue,
                                           RequestTypingRate(typing_rate),
                                           DisplayMode_PETSCII)},
          q0 \in {create_input_queue} :
       LET q == QueuePtr(r.events)
       IN  /\ translation' = Returned(q0, r)
           /\ IF SubmitsQueue(r.success)
              THEN /\ SetGlobals(submit_input_queue(Mgr, q, ticks))
                   /\ IF ShouldActivate([Mgr EXCEPT !.pending = Append(@, q)])
                      THEN /\ fired' = <<>>
                           /\ submitted' = <<q>>
                           /\ deleted' = <<>>
                           /\ activatedAt' = ticks
                      ELSE /\ submitted' = Append(submitted, q)
                           /\ UNCHANGED <<fired, deleted, activatedAt>>
                   /\ nSubmits' = nSubmits + 1
                   /\ nEvents' = nEvents + Len(q.events)
                   /\ response' = "success"
              ELSE /\ response' = "error"
                   /\ deleted' = Append(deleted, Destroyed(q, "handler"))
                   /\ UNCHANGED <<mgrVars, fired, submitted, activatedAt,
                                  nSubmits, nEvents>>
    /\ CallInitCharLookup
    /\ UNCHANGED <<ticks, age, sink, errorLogged, threadVars, text, mode, typing_rate,
                   legVars, bufVars>>

\* the emulator runs until every pending event is due: SDL_GetTicks()
\* advances by the delays of the events that have not fired
WaitUntilDue ==
    /\ ticks = g_last_event_time
    /\ SumWait(Remaining) > g_elapsed_time
    /\ ticks' = (ticks + SumWait(Remaining) - g_elapsed_time) % UINT_MODULUS
    /\ age' = age + SumWait(Remaining) - g_elapsed_time
    /\ UNCHANGED <<mgrVars, histVars, threadVars, reqVars, lookVars, legVars, bufVars>>

NextKbd ==
    \/ Translate
    \/ PostKeyboard
    \/ WaitUntilDue
    \/ Tick

SpecKbd == InitKbd /\ [][NextKbd]_vars

(* ---------------------------------------------------------------------- *)
(* First use of the character table: HTTP request threads enter            *)
(* translate_ascii_to_events at the same time, no lock around the table.   *)
(* One step per statement; one step per entry of the two loops.            *)
(* ---------------------------------------------------------------------- *)
\* thread t moves to the position p
Goto(t, p) == pcReq' = [pcReq EXCEPT ![t] = p]

\* translate_ascii_to_events: if (!lookup_initialized) init_char_lookup();
ReqTest(t) ==
    /\ pcReq[t].at = "idle"
    /\ Goto(t, IF lookup_initialized THEN At("read", 0) ELSE At("enter", 0))
    /\ UNCHANGED <<lookup_initialized, lookup, entryRead>>

\* init_char_lookup: if (lookup_initialized) return;
ReqEnter(t) ==
    /\ pcReq[t].at = "enter"
    /\ Goto(t, IF lookup_initialized THEN At("read", 0) ELSE At("clear", 1))
    /\ UNCHANGED <<lookup_initialized, lookup, entryRead>>

\* for (int i = 0; i < 128; i++) { char_lookup[i] = "no mapping"; }
ReqClear(t) ==
    /\ pcReq[t].at = "clear"
    /\ lookup' = [lookup EXCEPT ![TableChars[pcReq[t].i]] =
                      NoMapping(TableChars[pcReq[t].i])]
    /\ Goto(t, IF pcReq[t].i < Len(TableChars)
               THEN At("clear", pcReq[t].i + 1) ELSE At("populate", 1))
    /\ UNCHANGED <<lookup_initialized, entryRead>>

\* for (size_t i = 0; i < char_map_size; i++) { char_lookup[uc] = char_map[i]; }
ReqPopulate(t) ==
    /\ pcReq[t].at = "populate"
    /\ lookup' = [lookup EXCEPT ![MapOrder[pcReq[t].i]] = char_lookup(MapOrder[pcReq[t].i])]
    /\ Goto(t, IF pcReq[t].i < Len(MapOrder)
               THEN At("populate", pcReq[t].i + 1) ELSE At("set", 0))
    /\ UNCHANGED <<lookup_initialized, entryRead>>

\* lookup_initialized = true;
ReqSet(t) ==
    /\ pcReq[t].at = "set"
    /\ lookup_initialized' = TRUE
    /\ Goto(t, At("read", 0))
    /\ UNCHANGED <<lookup, entryRead>>

\* the translation loop reads char_lookup[uc] for a character c of the text
ReqRead(t, c) ==
    /\ pcReq[t].at = "read"
    /\ entryRead' = [entryRead EXCEPT ![t] = [c |-> c, entry |-> lookup[c]]]
    /\ Goto(t, At("done", 0))
    /\ UNCHANGED <<lookup_initialized, lookup>>

NextLookup ==
    \E t \in RequestThreads :
        /\ \/ ReqTest(t)
           \/ ReqEnter(t)
           \/ ReqClear(t)
           \/ ReqPopulate(t)
           \/ ReqSet(t)
           \/ \E c \in Range(TableChars) : ReqRead(t, c)
        /\ UNCHANGED <<mgrVars, ticks, age, histVars, threadVars, reqVars,
                       legVars, bufVars>>

SpecLookup == Init /\ [][NextLookup]_vars

(* ---------------------------------------------------------------------- *)
(* The main loop and the callers of the legacy character queue             *)
(* ---------------------------------------------------------------------- *)
\* the arguments of keyboard_add_text in the model: the null pointer, the
\* empty string, strings that fit an empty queue (one of a character
\* without a keycode) and one that does not
LegacyTexts ==
    { NullText, CStr(<<>>), CStr(<<"a">>), CStr(<<"!", "1">>),
      CStr(<<"1", "a", "a">>), CStr(<<"a", "a", "a", "a">>) }

\* values of kbd_head and kbd_tail the emulated keyboard buffer may have
\* when the main loop calls keyboard_process_mcp_queue: 0, 10, 11 and 15
\* slots in use
KbdPool == { <<0, 0>>, <<2, 8>>, <<11, 0>>, <<3, 4>> }

\* advances of the tick counter between two calls: just short of the
\* injection delay, and the delay itself
LegacySteps == {KEY_INJECT_DELAY_MS - 1, KEY_INJECT_DELAY_MS}

\* the timed queue a request submits next to the legacy queue
LegacyTimedPool == { QueuePtr(<<InputEvent(INPUT_TYPE_KEYBOARD, 1, SDL_SCANCODE_A, 2)>>) }

SetLegacy(l) ==
    /\ mcp_keyboard_queue' = l.q
    /\ mcp_queue_head' = l.head
    /\ mcp_queue_tail' = l.tail
    /\ last_key_inject_time' = l.last

\* a caller calls keyboard_add_text(t)
KeyboardAddText(t) ==
    /\ nAddCalls < MaxAddCalls
    /\ \E r \in {mcp_keyboard_queue_add_text(Leg, t)} :
       /\ SetLegacy(r.l)
       /\ legacyAdded' = IF r.ok THEN legacyAdded \o t.chars ELSE legacyAdded
    /\ nAddCalls' = nAddCalls + 1
    /\ UNCHANGED <<mgrVars, ticks, age, histVars, threadVars, reqVars, lookVars,
                   kbd_added, legacyRemoved, bufVars>>

\* the main loop calls keyboard_process_mcp_queue() while the emulated
\* keyboard buffer stands at kbd_head, kbd_tail
ProcessMcpQueue(kbd_head, kbd_tail) ==
    /\ \E r \in {keyboard_process_mcp_queue(Mgr, Leg, ticks, kbd_head, kbd_tail)} :
       /\ SetGlobals(r.m)
       /\ fired' = fired \o [i \in 1..Len(r.m.fired) |-> r.m.fired[i].ev]
       /\ sink' = sink \o r.m.sink
       /\ deleted' = deleted \o [i \in 1..Len(r.m.deleted) |->
                                     Destroyed(r.m.deleted[i], "tick")]
       /\ SetLegacy(r.l)
       /\ kbd_added' = kbd_added \o [i \in 1..Len(r.l.sent) |->
                                        [value |-> r.l.sent[i], at |-> age]]
       /\ legacyRemoved' = legacyRemoved \o r.l.got
    /\ UNCHANGED <<reqVars, ticks, age, submitted, activatedAt, nSubmits, nEvents,
                   errorLogged, threadVars, lookVars, legacyAdded, nAddCalls, bufVars>>

\* SDL_GetTicks() advances by d milliseconds
LegacyClock(d) ==
    /\ age + d <= MaxLegacyAge
    /\ ticks' = (ticks + d) % UINT_MODULUS
    /\ age' = age + d
    /\ UNCHANGED <<mgrVars, histVars, threadVars, reqVars, lookVars, legVars, bufVars>>

NextLegacy ==
    \/ \E t \in LegacyTexts : KeyboardAddText(t)
    \/ \E kbd \in KbdPool : ProcessMcpQueue(kbd[1], kbd[2])
    \/ \E d \in LegacySteps : LegacyClock(d)
    \/ \E q \in LegacyTimedPool : Submit(q)

SpecLegacy == Init /\ [][NextLegacy]_vars

(* ---------------------------------------------------------------------- *)
(* A caller of the x16_buffer_* functions                                  *)
(* ---------------------------------------------------------------------- *)
\* the data arguments of x16_buffer_append and x16_buffer_set
DataPool == { NullText, CStr(<<"a">>), CStr(<<"a", "b">>) }

\* the len arguments that go with a data argument
LenPool(d) == 0..(IF d.null THEN 1 ELSE Len(d.chars))

\* a call on the buffer: the function, the value it returned, and whether
\* it was a resize of an allocated buffer to a capacity not above its size
Call(op, ok, shrink) == [op |-> op, ok |-> ok, shrink |-> shrink]

\* the buffer and the record of calls after a call returned o
CallReturns(o, op, shrink) ==
    /\ buffer' = o.b
    /\ bufCalls' = Append(bufCalls, Call(op, o.ok, shrink))

BufAlloc(capacity, mem) ==
    /\ Len(bufCalls) < MaxBufCalls
    /\ CallReturns(x16_buffer_alloc(buffer, capacity, mem), "alloc", FALSE)
    /\ UNCHANGED <<mgrVars, ticks, age, histVars, threadVars, reqVars, lookVars,
                   legVars>>

BufResize(new_capacity, mem) ==
    /\ Len(bufCalls) < MaxBufCalls
    /\ CallReturns(x16_buffer_resize(buffer, new_capacity, mem), "resize",
                 buffer.allocated /\ new_capacity <= buffer.size)
    /\ UNCHANGED <<mgrVars, ticks, age, histVars, threadVars, reqVars, lookVars,
                   legVars>>

BufAppend(d, len, mem) ==
    /\ Len(bufCalls) < MaxBufCalls
    /\ CallReturns(x16_buffer_append(buffer, d, len, mem), "append", FALSE)
    /\ UNCHANGED <<mgrVars, ticks, age, histVars, threadVars, reqVars, lookVars,
                   legVars>>

BufSet(d, len, mem) ==
    /\ Len(bufCalls) < MaxBufCalls
    /\ CallReturns(x16_buffer_set(buffer, d, len, mem), "set", FALSE)
    /\ UNCHANGED <<mgrVars, ticks, age, histVars, threadVars, reqVars, lookVars,
                   legVars>>

BufClear ==
    /\ Len(bufCalls) < MaxBufCalls
    /\ CallReturns(Outcome(x16_buffer_clear(buffer), TRUE), "clear", FALSE)
    /\ UNCHANGED <<mgrVars, ticks, age, histVars, threadVars, reqVars, lookVars,
                   legVars>>

NextBuffer ==
    \/ \E capacity \in 0..MaxCapacity, mem \in MemPool : BufAlloc(capacity, mem)
    \/ \E new_capacity \in 0..MaxCapacity, mem \in MemPool : BufResize(new_capacity, mem)
    \/ \E d \in DataPool, mem \in MemPool : \E len \in LenPool(d) : BufAppend(d, len, mem)
    \/ \E d \in DataPool, mem \in MemPool : \E len \in LenPool(d) : BufSet(d, len, mem)
    \/ BufClear

SpecBuffer == Init /\ [][NextBuffer]_vars

(* ---------------------------------------------------------------------- *)
(* Properties                                                              *)
(* ---------------------------------------------------------------------- *)
\* the events of a list of firing records
EventsOf(recs) == [i \in 1..Len(recs) |-> recs[i].ev]

\* the events of a manager value's pending queues that have not fired yet
RemainingOf(m) == SubSeq(Concat(m.pending), m.idx + 1, Len(Concat(m.pending)))

\* a manager value with an empty record of what it fired
Cleared(m) == [m EXCEPT !.fired = <<>>, !.sink = <<>>, !.deleted = <<>>, !.steps = 0]

\* the result of a drain tick called in the current state
TickNow == process_input_event_queues(Mgr, ticks)

Min(a, b) == IF a <= b THEN a ELSE b

\* C1: the events fired since the manager last became active are a prefix of
\* the concatenation of the queues submitted since then, in submission
\* order, and the rest of that concatenation is exactly what is still
\* pending behind the cursor: nothing is dropped, duplicated, reordered or
\* interleaved.
C1_FiredIsPrefix ==
    LET all == Concat(submitted) IN
    /\ Len(fired) <= Len(all)
    /\ fired = SubSeq(all, 1, Len(fired))
    /\ Remaining = SubSeq(all, Len(fired) + 1, Len(all))

\* two different non-empty queues were submitted one behind the other and
\* the drain has gone through the first into the second
C1_Witness ==
    /\ Len(submitted) = 2
    /\ submitted[1].events # <<>>
    /\ submitted[2].events # <<>>
    /\ submitted[1].events[1] # submitted[2].events[1]
    /\ Len(fired) > Len(submitted[1].events)

\* C2: a drain tick fires an event only when the budget at that moment is at
\* least the event's wait_ms; a tick that stops before an event stops with a
\* budget smaller than that event's wait_ms, and budget, cursor and pending
\* list are those left by the last event it fired.
C2_FiresOnlyWhenDue ==
    LET r == TickNow
        budget0 == IF ~g_processing_active \/ g_pending_queues = <<>> THEN g_elapsed_time
                   ELSE (g_elapsed_time + ((ticks - g_last_event_time) % UINT_MODULUS)) % UINT_MODULUS
    IN  /\ \A i \in 1..Len(r.fired) : r.fired[i].budget >= r.fired[i].ev.wait_ms
        /\ r.pending # <<>> =>
              /\ r.idx < Len(Head(r.pending).events)
              /\ r.elapsed < Head(r.pending).events[r.idx + 1].wait_ms
              /\ r.elapsed = budget0 - SumWait(EventsOf(r.fired))
              /\ RemainingOf(r) = SubSeq(Remaining, Len(r.fired) + 1, Len(Remaining))
              /\ r.active

\* a tick at this clock has fired an event and stopped before the next one,
\* whose delay the budget does not cover
C2_Witness ==
    /\ g_processing_active
    /\ g_last_event_time = ticks
    /\ fired # <<>>
    /\ Remaining # <<>>
    /\ g_elapsed_time > 0
    /\ g_elapsed_time < Head(Remaining).wait_ms

\* every event of es has delay d
Uniform(es, d) == \A i \in 1..Len(es) : es[i].wait_ms = d

\* one queue was submitted while idle and no tick has changed anything since
FreshSingle ==
    /\ g_processing_active
    /\ Len(g_pending_queues) = 1
    /\ Head(g_pending_queues).events # <<>>
    /\ g_current_event_index = 0
    /\ g_elapsed_time = 0
    /\ g_last_event_time = activatedAt
    /\ fired = <<>>

\* for a fresh queue of N events of delay d in D, a tick k*d after the
\* submission fires min(k, N) events and leaves k*d - min(k, N)*d budget
CatchUp(D) ==
    FreshSingle =>
        LET es == Head(g_pending_queues).events
            N == Len(es)
            d == es[1].wait_ms
            r == TickNow
        IN  (Uniform(es, d) /\ d \in D) =>
                \A k \in 0..N :
                    (ticks - g_last_event_time) % UINT_MODULUS = k * d =>
                        /\ Len(r.fired) = Min(k, N)
                        /\ r.elapsed = k * d - Min(k, N) * d

\* C3 (as amended): given one queue of N events each with delay d > 0,
\* submitted while idle, a single drain tick whose clock is k*d later than
\* the submission (k <= N) fires exactly min(k, N) events and leaves a budget
\* of k*d - min(k, N)*d.
C3_CatchUpPositiveDelay == CatchUp(1..MaxAge)

\* C3 (as stated): the same for every delay d, zero included.
C3_CatchUpAnyDelay == CatchUp(0..MaxAge)

\* one queue of three events of delay 1 was submitted while idle and the
\* first drain tick, two delays later, has fired two of them and left no
\* budget
C3_Witness ==
    /\ Len(submitted) = 1
    /\ Len(submitted[1].events) = 3
    /\ Uniform(submitted[1].events, 1)
    /\ Len(fired) = 2
    /\ g_elapsed_time = 0
    /\ g_last_event_time = ticks
    /\ (ticks - activatedAt) % UINT_MODULUS = 2

\* C4: with drain ticks called again and again and the clock advancing,
\* whenever a queue is pending the manager eventually is inactive with zero
\* pending queues and every event of every queue submitted since it became
\* active has fired: no submitted queue is cancelled or abandoned.
C4_RunsToCompletion ==
    [](g_pending_queues # <<>> =>
          <>(/\ ~g_processing_active
             /\ g_pending_queues = <<>>
             /\ fired = Concat(submitted)))

\* two queues with delays were submitted at different clocks and both have
\* been drained to the end
C4_Witness ==
    /\ ~g_processing_active
    /\ g_pending_queues = <<>>
    /\ Len(submitted) = 2
    /\ SumWait(submitted[1].events) > 0
    /\ SumWait(submitted[2].events) > 0
    /\ fired = Concat(submitted)

\* what of a manager value later calls can depend on: an idle manager's
\* budget and last-tick time are overwritten by the next activation
Live(m) == IF m.active THEN Globals(m) ELSE <<m.pending, m.idx, m.active>>

\* C5: a drain tick at the clock of the previous tick changes nothing and
\* fires nothing; a tick with zero elapsed time adds nothing to the budget
\* and fires only events the carried budget covers; with or without it, a
\* tick at a later clock leaves the same manager state and fires the same
\* events at that clock with the same budget (an idle manager's dead budget
\* and last-tick time aside); and a tick that leaves no
\* event unfired leaves the manager idle with zero pending queues.
C5_ZeroDeltaTicks ==
    LET r == TickNow
        t1 == Cleared(r)
        z == process_input_event_queues(t1, ticks)
    IN  /\ z.fired = <<>>
        /\ Globals(z) = Globals(t1)
        /\ RemainingOf(r) = <<>> => (~r.active /\ r.pending = <<>>)
        /\ g_last_event_time = ticks =>
              /\ r.elapsed + SumWait(EventsOf(r.fired)) = g_elapsed_time
              /\ \A i \in 1..Len(r.fired) :
                     /\ r.fired[i].budget >= r.fired[i].ev.wait_ms
                     /\ r.fired[i].budget <= g_elapsed_time
              /\ \A d \in 1..MaxStep :
                    LET t == (ticks + d) % UINT_MODULUS
                        direct == process_input_event_queues(Mgr, t)
                        via == process_input_event_queues(t1, t)
                        n == Len(r.fired)
                    IN  /\ Live(direct) = Live(via)
                        /\ Len(direct.fired) = n + Len(via.fired)
                        /\ EventsOf(SubSeq(direct.fired, 1, n)) = EventsOf(r.fired)
                        /\ SubSeq(direct.fired, n + 1, Len(direct.fired)) = via.fired

\* a tick at the very clock of the activation has fired the zero-delay
\* events at the front of the queue and stopped before a later event
C5_Witness ==
    /\ g_processing_active
    /\ activatedAt = ticks
    /\ g_last_event_time = ticks
    /\ fired # <<>>
    /\ Remaining # <<>>

\* C6: between calls the manager is active exactly when the pending list is
\* non-empty; a submit leaves it active, and a drain tick of an active
\* manager leaves it idle exactly when it leaves no pending event unfired.
C6_ActiveIffPending ==
    /\ g_processing_active \in BOOLEAN
    /\ g_processing_active <=> (g_pending_queues # <<>>)
    /\ \A q \in QueuePool :
          LET r == submit_input_queue(Mgr, q, ticks)
          IN  r.active /\ r.pending # <<>>
    /\ LET r == TickNow
       IN  /\ r.active <=> (r.pending # <<>>)
           /\ g_processing_active => (~r.active <=> RemainingOf(r) = <<>>)

\* the manager is idle again after an activation in which events fired
C6_Witness ==
    /\ ~g_processing_active
    /\ g_pending_queues = <<>>
    /\ fired # <<>>
    /\ fired = Concat(submitted)

\* C7: submit_input_queue called while the manager is active only appends
\* the queue to the pending list: cursor, budget, last-tick time and the
\* queues already pending are unchanged.
C7_SubmitWhileActiveAppends ==
    g_processing_active =>
        \A q \in QueuePool :
            Globals(submit_input_queue(Mgr, q, ticks)) =
                <<Append(g_pending_queues, q), g_current_event_index,
                  g_last_event_time, g_elapsed_time, TRUE>>

\* a second queue is pending behind a first one that is partly drained, with
\* budget left and a last-tick time that is not the current clock
C7_Witness ==
    /\ Len(submitted) = 2
    /\ Len(g_pending_queues) = 2
    /\ g_current_event_index > 0
    /\ g_elapsed_time > 0
    /\ g_last_event_time # ticks

\* C9: submit_input_queue with a null queue changes neither the pending
\* list nor cursor, budget, last-tick time or active flag, and no pending
\* entry is ever the null pointer.
C9_NullSubmitIsNoOp ==
    /\ Globals(submit_input_queue(Mgr, NullQueue, ticks)) = Globals(Mgr)
    /\ \A i \in 1..Len(g_pending_queues) : ~g_pending_queues[i].null

\* a null submission was rejected and a partly drained queue is pending
C9_Witness ==
    /\ errorLogged
    /\ g_pending_queues # <<>>
    /\ g_current_event_index > 0

\* C10: process_input_event_queues called with the manager inactive, or
\* with an empty pending list, fires nothing and changes neither budget,
\* last-tick time, cursor, pending list nor active flag.
C10_IdleTickIsNoOp ==
    \A m \in {Mgr, [Mgr EXCEPT !.active = FALSE], [Mgr EXCEPT !.pending = <<>>]} :
        (~m.active \/ m.pending = <<>>) =>
            process_input_event_queues(m, ticks) = m

\* the manager is idle after an activation, with budget left over, and the
\* clock has moved on since the last tick that did anything
C10_Witness ==
    /\ ~g_processing_active
    /\ fired # <<>>
    /\ g_elapsed_time > 0
    /\ ticks # g_last_event_time

\* C8: with submit_input_queue on the HTTP thread and
\* process_input_event_queues on the main loop, whenever neither call is
\* executing the manager is not inactive while the pending list holds a
\* queue.
C8_NeverStranded ==
    (pcMain = "idle" /\ pcHttp = "idle") =>
        (g_pending_queues # <<>> => g_processing_active)

\* the budget a drain tick called in the current state starts its loop with
BudgetAtEntry ==
    (g_elapsed_time + ((ticks - g_last_event_time) % UINT_MODULUS)) % UINT_MODULUS

\* the number of queues a drain tick called in the current state removes
QueuesRemoved == Len(g_pending_queues) - Len(TickNow.pending)

\* C11: when a drain tick exhausts the front queue and another queue is
\* pending, the same tick goes on into that queue: the budget every fired
\* event meets is the budget at entry less the delays of the events fired
\* before it in this tick, whichever queue they belong to, and where the
\* tick stops the cursor counts the events fired from the queue it stopped
\* in, from 0.
C11_TickCrossesQueues ==
    LET r == TickNow
        n == Len(r.fired)
        k == QueuesRemoved
        gone == Concat(SubSeq(g_pending_queues, 1, k))
    IN  (g_processing_active /\ Len(g_pending_queues) >= 2 /\ k >= 1) =>
            /\ \A j \in 1..n :
                  r.fired[j].budget =
                      BudgetAtEntry - SumWait(EventsOf(SubSeq(r.fired, 1, j - 1)))
            /\ r.pending = SubSeq(g_pending_queues, k + 1, Len(g_pending_queues))
            /\ EventsOf(r.fired) = SubSeq(Remaining, 1, n)
            /\ r.pending # <<>> =>
                  /\ r.idx = n - (Len(gone) - g_current_event_index)
                  /\ r.idx >= 0
                  /\ r.elapsed = BudgetAtEntry - SumWait(EventsOf(r.fired))

\* a tick called now fires the last event of the front queue with budget to
\* spare and spends it on an event with a delay of the queue behind it
C11_Witness ==
    LET r == TickNow
        a == Len(Head(g_pending_queues).events) - g_current_event_index
    IN  /\ g_processing_active
        /\ Len(g_pending_queues) = 2
        /\ a >= 1
        /\ Len(r.fired) > a
        /\ r.fired[a].budget > r.fired[a].ev.wait_ms
        /\ r.fired[a + 1].ev.wait_ms > 0
        /\ r.fired[a + 1].budget = r.fired[a].budget - r.fired[a].ev.wait_ms

\* C12: when a drain tick exhausts the last pending queue it leaves the
\* pending list empty, the cursor 0, the elapsed-time budget 0 and the
\* manager inactive.
C12_ExhaustionClearsState ==
    LET r == TickNow
    IN  (g_processing_active /\ g_pending_queues # <<>> /\ r.pending = <<>>) =>
            /\ r.idx = 0
            /\ r.elapsed = 0
            /\ ~r.active


\* the display mode the translation recorded in the current state ran in
\* translate_ascii_to_events has returned from a call with a queue
Translated == translation.called /\ ~translation.null

UsedMode == IF response = "none" THEN mode ELSE DisplayMode_PETSCII

IsShiftEvent(e) == e.type = INPUT_TYPE_KEYBOARD /\ e.code = SDL_SCANCODE_LSHIFT
IsCtrlEvent(e) == e.type = INPUT_TYPE_KEYBOARD /\ e.code = SDL_SCANCODE_LALT
IsKeyEvent(e) == e.type = INPUT_TYPE_KEYBOARD /\ ~IsShiftEvent(e) /\ ~IsCtrlEvent(e)
IsPress(e) == e.is_down = 1
IsRelease(e) == e.is_down = 0

\* scancode and direction of each event of es
Strokes(es) == [i \in 1..Len(es) |-> <<es[i].code, es[i].is_down>>]

\* the events of one modifier are as many presses as releases and the last
\* one, if any, is a release
Balanced(es) ==
    /\ Len(SelectSeq(es, IsPress)) = Len(SelectSeq(es, IsRelease))
    /\ es # <<>> => IsRelease(es[Len(es)])

\* C13: for every input string, in either display mode, the queue
\* translate_ascii_to_events produces leaves no modifier held: LSHIFT and
\* LALT each have as many press as release events and the last event of
\* each, if any, is a release.
C13_NoModifierHeld ==
    Translated =>
        /\ Balanced(SelectSeq(translation.events, IsShiftEvent))
        /\ Balanced(SelectSeq(translation.events, IsCtrlEvent))

\* a translation in which shift was pressed and released and ctrl was still
\* held at the end of the input, so that its release is the last event
C13_Witness ==
    /\ Translated
    /\ SelectSeq(translation.events, IsShiftEvent) # <<>>
    /\ Len(translation.events) >= 2
    /\ IsCtrlEvent(translation.events[Len(translation.events)])
    /\ IsKeyEvent(translation.events[Len(translation.events) - 1])

\* every character of t has an entry in the character table
AllMapped(t) ==
    \A i \in 1..Len(t) :
        t[i] # Backtick /\ t[i] \notin HighBytes /\ \E e \in char_map : e.ascii_char = t[i]

\* the scancode the character table gives c
ScancodeOf(c) == (CHOOSE e \in char_map : e.ascii_char = c).scancode

\* a press and a release of each character's scancode, in input order
RECURSIVE PressReleasePairs(_)
PressReleasePairs(t) ==
    IF t = <<>> THEN <<>>
    ELSE << <<ScancodeOf(Head(t)), 1>>, <<ScancodeOf(Head(t)), 0>> >>
         \o PressReleasePairs(Tail(t))

\* C14: for every input made only of mapped characters, with no macro, the
\* Keyboard events of the produced queue that are not modifier events are
\* one press immediately followed by one release of the character's
\* scancode, per character, in input order.
C14_PressReleasePerCharacter ==
    (Translated /\ AllMapped(text)) =>
        /\ translation.success
        /\ \A i \in 1..Len(translation.events) :
               translation.events[i].type = INPUT_TYPE_KEYBOARD
        /\ Strokes(SelectSeq(translation.events, IsKeyEvent)) = PressReleasePairs(text)

\* three mapped characters with two different scancodes were translated,
\* with modifier events between their key events
C14_Witness ==
    /\ Translated
    /\ AllMapped(text)
    /\ Len(text) = 3
    /\ ScancodeOf(text[1]) # ScancodeOf(text[2])
    /\ SelectSeq(translation.events, IsShiftEvent) # <<>>
    /\ Len(SelectSeq(translation.events, IsKeyEvent)) = 6

\* character i of the text needs shift held, in the display mode used
ShiftRequired(i) ==
    \/ (CHOOSE e \in char_map : e.ascii_char = text[i]).needs_shift
    \/ (UsedMode = DisplayMode_ASCII /\ text[i] \in Range(UpperCase))

\* the strokes the text's characters from position i on are to produce when
\* a shift event precedes a character exactly if its need of shift differs
\* from that of the character before it (none before the first), and shift
\* is released at the end if the last character needed it
RECURSIVE StrokesFrom(_)
StrokesFrom(i) ==
    IF i > Len(text)
    THEN IF Len(text) >= 1 /\ ShiftRequired(Len(text))
         THEN << <<SDL_SCANCODE_LSHIFT, 0>> >> ELSE <<>>
    ELSE LET before == i > 1 /\ ShiftRequired(i - 1)
             change == IF ShiftRequired(i) # before
                       THEN << <<SDL_SCANCODE_LSHIFT, IF ShiftRequired(i) THEN 1 ELSE 0>> >>
                       ELSE <<>>
         IN  change \o << <<ScancodeOf(text[i]), 1>>, <<ScancodeOf(text[i]), 0>> >>
             \o StrokesFrom(i + 1)

\* the events of es are press, release, press, ... in turn
Alternating(es) == \A i \in 1..Len(es) : es[i].is_down = i % 2

\* C15: for every input made only of mapped characters, with no macro, a
\* modifier event precedes a character exactly when the modifier state the
\* character requires differs from the state carried from the previous
\* character (released at the start); so each modifier's events alternate
\* press, release, starting with a press.
C15_ModifierOnlyOnChange ==
    (Translated /\ AllMapped(text)) =>
        /\ Strokes(translation.events) = StrokesFrom(1)
        /\ Alternating(SelectSeq(translation.events, IsShiftEvent))
        /\ Alternating(SelectSeq(translation.events, IsCtrlEvent))

\* a translation of three characters in which shift was pressed for the
\* first, released for the second, pressed again for the third and released
\* at the end
C15_Witness ==
    /\ Translated
    /\ AllMapped(text)
    /\ Len(text) = 3
    /\ ShiftRequired(1) /\ ~ShiftRequired(2) /\ ShiftRequired(3)
    /\ Len(SelectSeq(translation.events, IsShiftEvent)) = 4


\* the positions of the backticks of t, in order
BacktickPositions(t) ==
    LET P == { i \in 1..Len(t) : t[i] = Backtick }
        RECURSIVE Sorted(_)
        Sorted(S) == IF S = {} THEN <<>>
                     ELSE LET m == CHOOSE x \in S : \A y \in S : x <= y
                          IN  <<m>> \o Sorted(S \ {m})
    IN  Sorted(P)

\* A backtick opens a macro token whose body runs to the next backtick: the
\* bodies of the tokens of t that are closed, in order
TokenBodies(t) ==
    LET bp == BacktickPositions(t)
    IN  [k \in 1..(Len(bp) \div 2) |-> SubSeq(t, bp[2 * k - 1] + 1, bp[2 * k] - 1)]

\* the last backtick of t opens a token that no backtick closes
HasUnterminatedToken(t) == Len(BacktickPositions(t)) % 2 = 1

\* cs is a numeral: digits, optionally a '.' and more digits
IsNumeral(cs) ==
    LET ip == DigitPrefix(cs)
        rest == SubSeq(cs, Len(ip) + 1, Len(cs))
    IN  /\ ip # <<>>
        /\ \/ rest = <<>>
           \/ /\ Head(rest) = "."
              /\ Len(rest) > 1
              /\ DigitPrefix(Tail(rest)) = Tail(rest)

\* the token body is a dynamic wait, a raw scancode literal, a known name
IsWaitToken(body) == Len(body) > 1 /\ body[1] = "_"
IsRawToken(body) ==
    Len(body) > 1 /\ body[1] = "K" /\ DigitPrefix(Tail(body)) = Tail(body)
IsKnownName(body) == Str([i \in 1..Len(body) |-> ToUpper(body[i])]) \in DOMAIN macro_map

\* the request, if there was one, was answered with an error and no queue
\* was submitted
NothingSubmitted == nSubmits = 0 /\ g_pending_queues = <<>> /\ response # "success"

\* C16: an input with a macro token that has no closing backtick makes the
\* whole translation fail: translate_ascii_to_events reports failure and no
\* event of that input is emitted or submitted.
C16_UnterminatedTokenFails ==
    (Translated /\ HasUnterminatedToken(text)) =>
        /\ ~translation.success
        /\ translation.events = <<>>
        /\ NothingSubmitted

\* C17: a macro token whose name is neither a dynamic wait nor in the
\* named-macro table makes the whole translation fail, and no queue is
\* submitted for that input.
C17_UnknownNameFails ==
    (/\ Translated
     /\ ~HasUnterminatedToken(text)
     /\ \E k \in DOMAIN TokenBodies(text) :
           LET body == TokenBodies(text)[k]
           IN  body # <<>> /\ ~IsWaitToken(body) /\ ~IsRawToken(body) /\ ~IsKnownName(body))
    =>  (~translation.success /\ NothingSubmitted)

\* C18: a dynamic wait token whose value is negative or is no number makes
\* the whole translation fail; it is not skipped while the rest of the
\* input is translated.
C18_InvalidWaitFails ==
    (/\ Translated
     /\ ~HasUnterminatedToken(text)
     /\ \E k \in DOMAIN TokenBodies(text) :
           LET body == TokenBodies(text)[k]
           IN  IsWaitToken(body) /\ ~IsNumeral(Tail(body)))
    =>  (~translation.success /\ NothingSubmitted)

\* t is mapped characters, one closed token, mapped characters
HasOneToken(t) ==
    LET bp == BacktickPositions(t)
    IN  /\ Len(bp) = 2
        /\ AllMapped(SubSeq(t, 1, bp[1] - 1))
        /\ AllMapped(SubSeq(t, bp[2] + 1, Len(t)))
TokenBody(t) == TokenBodies(t)[1]
AroundToken(t) ==
    LET bp == BacktickPositions(t)
    IN  SubSeq(t, 1, bp[1] - 1) \o SubSeq(t, bp[2] + 1, Len(t))
BeforeToken(t) == SubSeq(t, 1, BacktickPositions(t)[1] - 1)
AfterToken(t) == SubSeq(t, BacktickPositions(t)[2] + 1, Len(t))

IsWaitEvent(e) == e.type = INPUT_TYPE_WAIT
IsNoWaitEvent(e) == e.type # INPUT_TYPE_WAIT

\* C19: a dynamic wait token produces exactly one Wait event and no Keyboard
\* event; the Wait lasts the numeral's value in milliseconds if the numeral
\* has no '.', and the numeral's value times 1000 if it has one; the
\* modifier state carried across it is unchanged, so the other events are
\* those of the input without the token.
C19_WaitDuration ==
    (/\ Translated
     /\ HasOneToken(text)
     /\ IsWaitToken(TokenBody(text))
     /\ IsNumeral(Tail(TokenBody(text))))
    =>  LET v == strtod(Tail(TokenBody(text)))
            waits == SelectSeq(translation.events, IsWaitEvent)
        IN  /\ translation.success
            /\ Len(waits) = 1
            /\ waits[1].wait_ms * 10^v.fraction =
                   v.digits * (IF "." \in Range(TokenBody(text)) THEN 1000 ELSE 1)
            /\ Strokes(SelectSeq(translation.events, IsNoWaitEvent)) =
                   Strokes(translate_ascii_to_events(AroundToken(text), create_input_queue,
                                                     typing_rate.value, UsedMode).events)

\* C20: a macro token of 'K' followed by digits is a raw scancode literal:
\* for a value in 0..255 the translation emits a press and a release of
\* exactly that code, and for a value outside 0..255 the translation fails.
C20_RawScancodeLiteral ==
    (/\ Translated
     /\ HasOneToken(text)
     /\ IsRawToken(TokenBody(text)))
    =>  LET code == DecimalValue(Tail(TokenBody(text)))
        IN  IF code <= 255
            THEN /\ translation.success
                 /\ Strokes(SelectSeq(translation.events, IsKeyEvent)) =
                        PressReleasePairs(BeforeToken(text))
                        \o << <<code, 1>>, <<code, 0>> >>
                        \o PressReleasePairs(AfterToken(text))
            ELSE ~translation.success /\ NothingSubmitted


\* the typing rate the call was made with
UsedRate ==
    IF response = "none" THEN typing_rate.value ELSE RequestTypingRate(typing_rate)

\* the events the same call produces for the input t
QueueFor(t) == translate_ascii_to_events(t, create_input_queue, UsedRate, UsedMode).events

\* c is not a backtick and has no entry in the character table
Unmapped(c) ==
    c # Backtick /\ (c \in HighBytes \/ ~\E e \in char_map : e.ascii_char = c)

\* every backtick of u opens a token with a name that a backtick closes
RECURSIVE TokensClosed(_)
TokensClosed(u) ==
    IF u = <<>> THEN TRUE
    ELSE IF Head(u) # Backtick THEN TokensClosed(Tail(u))
    ELSE LET e == MacroEnd(u, 1)
         IN  /\ e > 1
             /\ e < Len(u)
             /\ u[e + 1] = Backtick
             /\ TokensClosed(SubSeq(u, e + 2, Len(u)))

\* character i of t is a literal character: it is not part of a macro token
LiteralAt(t, i) == t[i] # Backtick /\ TokensClosed(SubSeq(t, 1, i - 1))

\* t without its character i
Without(t, i) == SubSeq(t, 1, i - 1) \o SubSeq(t, i + 1, Len(t))

\* C21: a literal character that has no entry in the lookup table, or whose
\* code is 128 or more, is skipped: the translation succeeds and the queue
\* holds exactly the events the input without that character produces (so
\* the character adds no event and leaves the carried shift/ctrl state as
\* it was).
C21_UnmappedSkipped ==
    Translated =>
        \A i \in 1..Len(text) :
            (Unmapped(text[i]) /\ LiteralAt(text, i)) =>
                /\ translation.success
                /\ translation.events = QueueFor(Without(text, i))
                /\ Len(text) = 1 => translation.events = <<>>

\* in ASCII mode a byte above 127 stood between two upper-case letters:
\* shift was pressed once, before the first letter, and released at the end
C21_Witness ==
    /\ Translated
    /\ UsedMode = DisplayMode_ASCII
    /\ Len(text) = 3
    /\ text[2] \in HighBytes
    /\ IsUpper(text[1]) /\ IsUpper(text[3])
    /\ Len(SelectSeq(translation.events, IsShiftEvent)) = 2
    /\ Len(translation.events) = 6

\* C22: when translate_ascii_to_events reports failure, as it does for a
\* null destination queue, the call has produced no event and nothing is
\* submitted: the pending list, cursor, budget, last-tick time and active
\* flag are those from before the request, no queue has been handed to the
\* manager, no event has fired or reached the keyboard sink, and the
\* request is not answered with success.  An error response is given only
\* for a failed translation, a success response only for a successful one.
C22_FailureSubmitsNothing ==
    /\ (translation.called /\ translation.null) => ~translation.success
    /\ (translation.called /\ ~translation.success) =>
           /\ translation.events = <<>>
           /\ Globals(Mgr) = << <<>>, 0, 0, 0, FALSE >>
           /\ submitted = <<>> /\ nSubmits = 0
           /\ fired = <<>> /\ sink = <<>>
           /\ response # "success"
    /\ response = "error" => (translation.called /\ ~translation.success)
    /\ response = "success" => (translation.called /\ translation.success)

\* a text with a key macro was handed to translate_ascii_to_events with a
\* null queue, and the call reported failure
C22_Witness ==
    /\ translation.called
    /\ translation.null
    /\ ~translation.success
    /\ Backtick \in Range(text)
    /\ QueueFor(text) # <<>>

\* the queues of a list of destruction records
QueuesOf(ds) == [i \in 1..Len(ds) |-> ds[i].q]
ByTick(d) == d.by = "tick"
ByHandler(d) == d.by = "handler"

\* C23: every queue handed to the manager since it became active is either
\* still pending or has been destroyed by the drain tick, once, in
\* submission order; a destroyed queue had all its events fired, and a tick
\* destroys a queue in the call in which its cursor reaches the queue's
\* size; a tick reads (fires events of, destroys) only queues that are
\* pending, that is, not destroyed; the request handler destroys a queue
\* only when the translation failed, and that queue was never submitted.
C23_QueueDestroyedOnce ==
    /\ QueuesOf(SelectSeq(deleted, ByTick)) \o g_pending_queues = submitted
    /\ fired = Concat(QueuesOf(SelectSeq(deleted, ByTick)))
                  \o SubSeq(Concat(g_pending_queues), 1, g_current_event_index)
    /\ SelectSeq(deleted, ByHandler) # <<>> =>
           (response = "error" /\ nSubmits = 0 /\ Len(deleted) = 1)
    /\ LET r == TickNow
       IN  /\ r.deleted \o r.pending = g_pending_queues
           /\ EventsOf(r.fired) =
                  SubSeq(Concat(g_pending_queues), g_current_event_index + 1,
                         g_current_event_index + Len(r.fired))
           /\ (g_processing_active /\ r.pending # <<>>) =>
                  r.idx < Len(Head(r.pending).events)

\* of two queues submitted, the first has been destroyed after its events
\* fired and the second is pending, partly drained
C23_Witness ==
    /\ Len(submitted) = 2
    /\ Len(deleted) = 1
    /\ deleted[1].q.events # <<>>
    /\ Len(g_pending_queues) = 1
    /\ g_current_event_index > 0

IsModifierEvent(e) == IsShiftEvent(e) \/ IsCtrlEvent(e)

\* the typing rate of the call as the unsigned delay of an event
UsedDelay == UsedRate % UINT_MODULUS

\* the position of the first event behind position j of es that is not a
\* modifier event, or 0 if only modifier events follow
NextKeyPress(es, j) ==
    LET N == { n \in (j + 1)..Len(es) : ~IsModifierEvent(es[n]) }
    IN  IF N = {} THEN 0 ELSE CHOOSE n \in N : \A k \in N : n <= k

\* C24: when a character or key macro requires a modifier change, the
\* first modifier event inserted for it carries the typing rate of the
\* call (the pending delay), and the events that follow it for that key
\* (a second modifier event, the press, the release) carry the minimum
\* inter-event delay KEY_EVENT_MIN_DELAY_MS.
C24_ModifierCarriesPendingDelay ==
    Translated =>
        LET es == translation.events
        IN  \A j \in 1..Len(es) :
                (/\ IsModifierEvent(es[j])
                 /\ (j = 1 \/ ~IsModifierEvent(es[j - 1]))
                 /\ NextKeyPress(es, j) # 0)
                =>  /\ es[j].wait_ms = UsedDelay
                    /\ \A k \in (j + 1)..(NextKeyPress(es, j) + 1) :
                           es[k].wait_ms = KEY_EVENT_MIN_DELAY_MS

\* C25: for every literal character and every resolved key macro, the
\* press event of the key carries the typing rate of the call, and the next
\* event is the release of the same key, carrying the fixed minimum delay
\* KEY_EVENT_MIN_DELAY_MS that the modifier events carry.
C25_PressRateReleaseMinimum ==
    Translated =>
        LET es == translation.events
        IN  /\ \A j \in 1..Len(es) :
                   IsModifierEvent(es[j]) => es[j].wait_ms = KEY_EVENT_MIN_DELAY_MS
            /\ \A j \in 1..Len(es) :
                   (IsKeyEvent(es[j]) /\ IsPress(es[j])) =>
                       /\ es[j].wait_ms = UsedDelay
                       /\ j < Len(es)
                       /\ IsRelease(es[j + 1])
                       /\ es[j + 1].code = es[j].code
                       /\ es[j + 1].wait_ms = KEY_EVENT_MIN_DELAY_MS

\* t with every upper-case letter replaced by its lower-case form
Lowered(t) ==
    [i \in 1..Len(t) |-> IF IsUpper(t[i]) THEN LowerCase[IndexIn(UpperCase, t[i])] ELSE t[i]]

\* 1 if a shift event precedes the key press of character i of the text
ShiftChange(i) == IF ShiftRequired(i) # (i > 1 /\ ShiftRequired(i - 1)) THEN 1 ELSE 0

\* the number of events of characters 1..i of the text
RECURSIVE EventsUpTo(_)
EventsUpTo(i) == IF i = 0 THEN 0 ELSE EventsUpTo(i - 1) + ShiftChange(i) + 2

\* the position of the key press of character i in the queue
PressIndex(i) == EventsUpTo(i) - 1

\* C26: an upper-case letter requires shift only in ASCII display mode.  In
\* PETSCII mode a text and the same text with its upper-case letters in
\* lower case produce identical events, and a text of letters produces no
\* shift event.  In ASCII mode the press of an upper-case letter comes
\* directly behind a shift press if shift is not held (first character, or
\* the character before needs no shift) and behind no shift event if it is.
C26_UpperCaseShiftOnlyInAscii ==
    Translated =>
        LET es == translation.events
        IN  /\ UsedMode = DisplayMode_PETSCII =>
                   /\ es = QueueFor(Lowered(text))
                   /\ (\A i \in 1..Len(text) : IsUpper(text[i]) \/ IsLower(text[i])) =>
                          SelectSeq(es, IsShiftEvent) = <<>>
            /\ (UsedMode = DisplayMode_ASCII /\ AllMapped(text)) =>
                   \A i \in 1..Len(text) :
                       IsUpper(text[i]) =>
                           /\ PressIndex(i) \in 1..Len(es)
                           /\ Strokes(es)[PressIndex(i)] = <<ScancodeOf(text[i]), 1>>
                           /\ IF i = 1 \/ ~ShiftRequired(i - 1)
                              THEN /\ PressIndex(i) > 1
                                   /\ Strokes(es)[PressIndex(i) - 1] = <<SDL_SCANCODE_LSHIFT, 1>>
                              ELSE ~IsShiftEvent(es[PressIndex(i) - 1])

\* in ASCII mode a lower-case letter was followed by an upper-case letter:
\* shift was pressed between them and released at the end
C26_Witness ==
    /\ Translated
    /\ UsedMode = DisplayMode_ASCII
    /\ Len(text) = 2
    /\ IsLower(text[1])
    /\ IsUpper(text[2])
    /\ Len(translation.events) = 6
    /\ IsShiftEvent(translation.events[3])

IsKeyboardEvent(e) == e.type = INPUT_TYPE_KEYBOARD

\* one call handle_keyboard(is_down != 0, 0, code) per Keyboard event of es
SinkCalls(es) ==
    LET ks == SelectSeq(es, IsKeyboardEvent)
    IN  [i \in 1..Len(ks) |-> <<ks[i].is_down # 0, ks[i].code>>]

\* C27: the calls of the keyboard sink are exactly one call per fired
\* Keyboard event, with that event's press/release direction and scancode,
\* in firing order, in each drain tick and over the whole run; a fired Wait
\* event causes no call; and every fired event, Wait events included, takes
\* exactly its delay from the budget.
C27_SinkCallPerKeyboardEvent ==
    /\ sink = SinkCalls(fired)
    /\ LET r == TickNow
       IN  /\ r.sink = SinkCalls(EventsOf(r.fired))
           /\ \A i \in 1..Len(r.fired) :
                  (IF i < Len(r.fired) THEN r.fired[i + 1].budget ELSE r.elapsed)
                  = (r.fired[i].budget - r.fired[i].ev.wait_ms) % UINT_MODULUS

\* a queue with key events and a Wait event of positive delay has fired:
\* the sink was called for the key events only
C27_Witness ==
    /\ \E i \in 1..Len(fired) : fired[i].type = INPUT_TYPE_WAIT /\ fired[i].wait_ms > 0
    /\ \E i \in 1..Len(fired) : fired[i].type = INPUT_TYPE_KEYBOARD
    /\ sink # <<>>
    /\ Len(sink) < Len(fired)

(* ---------------------------------------------------------------------- *)
(* C28: process_input_event_queues does bounded work and returns           *)
(* ---------------------------------------------------------------------- *)
\* the call left the loop through "return" with events still pending
ReturnedEarly(r) == g_processing_active /\ r.pending # <<>>

\* C28: a call of process_input_event_queues terminates.  It fires at most
\* the events pending at entry; every loop iteration fires one event (the
\* cursor advances), destroys one queue, or is the single iteration that
\* returns, so the iterations are bounded by pending events + pending queues
\* + 1; the events it did not fire are still pending; it reads the clock once
\* and, when the next event is not yet due, returns instead of waiting.
C28_TickTerminates ==
    LET r == TickNow
    IN  /\ Len(r.fired) <= Len(Remaining)
        /\ r.steps = Len(r.fired) + Len(r.deleted)
                      + (IF ReturnedEarly(r) THEN 1 ELSE 0)
        /\ r.steps <= Len(Remaining) + Len(g_pending_queues) + 1
        /\ Len(RemainingOf(r)) = Len(Remaining) - Len(r.fired)
        /\ Len(r.pending) = Len(g_pending_queues) - Len(r.deleted)
        /\ \A i \in 1..Len(r.fired) : r.fired[i].at = ticks
        /\ ReturnedEarly(r) =>
               /\ r.active
               /\ RemainingOf(r) # <<>>
               /\ NotYetDue(r.elapsed, Head(RemainingOf(r)).wait_ms)
        /\ ~ReturnedEarly(r) /\ g_processing_active => ~r.active /\ RemainingOf(r) = <<>>

\* one call fires events, destroys a finished queue and returns with events
\* of a later queue still pending
C28_Witness ==
    LET r == TickNow
    IN  /\ Len(r.fired) > 0
        /\ Len(r.deleted) > 0
        /\ ReturnedEarly(r)
        /\ r.steps >= 3

(* ---------------------------------------------------------------------- *)
(* C29: the character table under concurrent requests                      *)
(* ---------------------------------------------------------------------- *)
\* the thread is inside the loops of init_char_lookup that write the table
Writing(t) == pcReq[t].at \in {"clear", "populate"}

\* the thread is in the translation loop, about to read char_lookup[uc]
Reading(t) == pcReq[t].at = "read"

\* C29: the character table is initialised once, before its first use, and
\* never changed afterwards, also with several request threads inside
\* translate_ascii_to_events: once lookup_initialized is set the table is the
\* initialised table, no thread reads an entry while another thread is
\* writing the table, and every entry a thread has read is the entry of the
\* initialised table.
C29_LookupInitializedOnce ==
    /\ lookup_initialized => lookup = InitializedLookup
    /\ \A t, u \in RequestThreads : ~(Reading(t) /\ Writing(u))
    /\ \A t \in RequestThreads :
           pcReq[t].at = "done" => entryRead[t].entry = char_lookup(entryRead[t].c)

(* ---------------------------------------------------------------------- *)
(* C30: the minimum typing rate of a /keyboard request                     *)
(* ---------------------------------------------------------------------- *)
\* C30: whatever typing rate a /keyboard text request carries (none, zero,
\* negative, small), the rate the handler passes to
\* translate_ascii_to_events is at least 30 ms, and every key-press event
\* (a keyboard event with is_down = 1) of the queue it submits has a delay
\* of at least 30 ms.
C30_PressDelayAtLeastMinimum ==
    /\ response # "none" => /\ UsedRate >= 30
                            /\ UsedRate = RequestTypingRate(typing_rate)
    /\ response = "success" =>
           \A j \in 1..Len(translation.events) :
               IsPress(translation.events[j]) => translation.events[j].wait_ms >= 30

(* ---------------------------------------------------------------------- *)
(* C31: time accounting                                                    *)
(* ---------------------------------------------------------------------- *)
\* a - b in uint32_t arithmetic
USub(a, b) == (a - b) % UINT_MODULUS

\* C31: time accounting is exact.  Since the last activation the budget plus
\* the delays of the events fired equals the clock of the last tick minus
\* the clock at activation (unsigned arithmetic); a drain tick adds the time
\* since the tick before to the budget and takes from it exactly the delays
\* of the events it fires, one event at a time.
C31_TimeAccountingExact ==
    /\ (g_elapsed_time + SumWait(fired)) % UINT_MODULUS
           = USub(g_last_event_time, activatedAt)
    /\ LET r == TickNow
       IN  (g_processing_active /\ g_pending_queues # <<>>) =>
               /\ r.last = ticks
               /\ (r.elapsed + SumWait(EventsOf(r.fired))) % UINT_MODULUS
                      = (g_elapsed_time + USub(ticks, g_last_event_time)) % UINT_MODULUS
               /\ (r.elapsed + SumWait(fired \o EventsOf(r.fired))) % UINT_MODULUS
                      = USub(ticks, activatedAt)
               /\ \A i \in 1..Len(r.fired) :
                      (IF i < Len(r.fired) THEN r.fired[i + 1].budget ELSE r.elapsed)
                      = r.fired[i].budget - r.fired[i].ev.wait_ms

\* events with positive delays have fired in an earlier tick, the clock has
\* advanced since, and the tick at this clock fires another one and leaves
\* the manager active
C31_Witness ==
    /\ g_processing_active
    /\ SumWait(fired) > 0
    /\ ticks # g_last_event_time
    /\ LET r == TickNow
       IN  /\ r.active
           /\ \E i \in 1..Len(r.fired) : r.fired[i].ev.wait_ms > 0

(* ---------------------------------------------------------------------- *)
(* C32: unsigned arithmetic of the budget and of the clock difference      *)
(* ---------------------------------------------------------------------- *)
\* the number of milliseconds since the start at which SDL_GetTicks()
\* returned the value c (the counter starts WrapLead before it wraps)
AgeOf(c) == (c + WrapLead) % UINT_MODULUS

\* C32: the unsigned budget never wraps below zero and the unsigned clock
\* difference is the true elapsed time.  Every event a tick fires finds a
\* budget of at least its delay, so the subtraction needs no borrow; and
\* while the manager is active the difference current_time -
\* g_last_event_time, computed modulo the word size, is the number of
\* milliseconds that really passed since the last tick or activation, also
\* when the tick counter wrapped around in between.
C32_BudgetNeverWraps ==
    LET r == TickNow
    IN  /\ \A i \in 1..Len(r.fired) :
               /\ r.fired[i].budget >= r.fired[i].ev.wait_ms
               /\ (IF i < Len(r.fired) THEN r.fired[i + 1].budget ELSE r.elapsed)
                      = r.fired[i].budget - r.fired[i].ev.wait_ms
        /\ r.elapsed \in 0..(UINT_MODULUS - 1)
        /\ g_processing_active =>
               /\ AgeOf(g_last_event_time) <= age
               /\ USub(ticks, g_last_event_time) = age - AgeOf(g_last_event_time)
               /\ g_pending_queues # <<>> =>
                      r.elapsed + SumWait(EventsOf(r.fired))
                          = g_elapsed_time + (age - AgeOf(g_last_event_time))

\* the tick counter has wrapped around since the last tick (it now reads
\* less than g_last_event_time) and the tick at this clock fires an event
\* with a positive delay
C32_Witness ==
    /\ g_processing_active
    /\ ticks < g_last_event_time
    /\ LET r == TickNow
       IN  \E i \in 1..Len(r.fired) : r.fired[i].ev.wait_ms > 0

(* ---------------------------------------------------------------------- *)
(* C33: the cursor                                                         *)
(* ---------------------------------------------------------------------- *)
\* the number of events of the queues that drain ticks have destroyed since
\* the manager last became active
DestroyedEvents == Len(Concat(QueuesOf(SelectSeq(deleted, ByTick))))

\* C33: between operations the cursor g_current_event_index refers to the
\* front pending queue: it lies between 0 and the size of that queue, it is
\* the number of events of that queue that have fired (one step per fired
\* event, back to 0 when the front queue is removed), and it is 0 when no
\* queue is pending and when the manager is idle.  A drain tick that
\* removes no queue advances it by the number of events it fires; one that
\* removes queues leaves it at the number of events fired from the new
\* front queue.
C33_CursorWithinFrontQueue ==
    /\ g_current_event_index >= 0
    /\ g_pending_queues # <<>> =>
           g_current_event_index <= Len(Head(g_pending_queues).events)
    /\ g_pending_queues = <<>> => g_current_event_index = 0
    /\ ~g_processing_active => g_current_event_index = 0
    /\ g_current_event_index = Len(fired) - DestroyedEvents
    /\ LET r == TickNow
       IN  /\ r.idx = IF r.deleted = <<>>
                      THEN g_current_event_index + Len(r.fired)
                      ELSE g_current_event_index + Len(r.fired) - Len(Concat(r.deleted))
           /\ r.pending # <<>> => r.idx <= Len(Head(r.pending).events)
           /\ r.pending = <<>> => r.idx = 0

\* the cursor stands inside the second queue submitted: the first queue was
\* removed, which set the cursor back to 0, and an event of the second queue
\* has fired since
C33_Witness ==
    /\ Len(submitted) = 2
    /\ Len(g_pending_queues) = 1
    /\ DestroyedEvents > 0
    /\ g_current_event_index > 0
    /\ g_current_event_index < Len(Head(g_pending_queues).events)

(* ---------------------------------------------------------------------- *)
(* C34: idle time is not credited to a new queue                           *)
(* ---------------------------------------------------------------------- *)
\* the manager after submit_input_queue(q) called in the current state
SubmitNow(q) == submit_input_queue(Mgr, q, ticks)

\* the queues submitted to the idle manager below: no event, one event, and
\* two events (an event without delay ahead of one with a delay among them)
IdleSubmitPool == { QueuePtr(es) : es \in SeqsUpTo(EventPool, 2) }

\* C34: time that passed while the manager was idle is never credited to a
\* new queue.  A submit while idle sets the budget to 0 and
\* g_last_event_time to the clock of the submission, whatever they were; and
\* the i-th event fired since that activation never fires before the
\* submission clock plus the delays of events 1..i, in unsigned clock
\* arithmetic and in milliseconds really passed.
C34_IdleTimeNotCredited ==
    /\ ~g_processing_active =>
           \A q \in IdleSubmitPool : \E s \in {SubmitNow(q)} :
               /\ s.elapsed = 0
               /\ s.last = ticks
               /\ s.idx = 0
               /\ s.active
               /\ \E n \in {Len(process_input_event_queues(s, ticks).fired)} :
                      \A j \in 1..Len(q.events) : q.events[j].wait_ms > 0 => n < j
    /\ SumWait(fired) <= USub(g_last_event_time, activatedAt)
    /\ LET r == TickNow
       IN  \A i \in 1..Len(r.fired) :
               /\ SumWait(fired) + SumWait(SubSeq(EventsOf(r.fired), 1, i))
                      <= USub(r.fired[i].at, activatedAt)
               /\ SumWait(fired) + SumWait(SubSeq(EventsOf(r.fired), 1, i))
                      <= age - AgeOf(activatedAt)

\* the manager is idle with a budget left over from an earlier queue and
\* the clock has moved on since its last tick; a queue submitted now whose
\* first delay the left-over budget and the idle time together would cover
\* does not fire in a tick at the same clock
C34_Witness ==
    /\ ~g_processing_active
    /\ g_elapsed_time > 0
    /\ fired # <<>>
    /\ USub(ticks, g_last_event_time) > 0
    /\ \E q \in QueuePool :
           /\ q.events # <<>>
           /\ q.events[1].wait_ms > 0
           /\ q.events[1].wait_ms <= g_elapsed_time + USub(ticks, g_last_event_time)
           /\ process_input_event_queues(SubmitNow(q), ticks).fired = <<>>

(* ---------------------------------------------------------------------- *)
(* C35: queues without events                                              *)
(* ---------------------------------------------------------------------- *)
\* texts that produce no event: the empty text and texts of characters
\* without an entry in the character table
EventlessTexts == {<<>>, <<"~">>, <<"<0xE9>">>, <<"~", "<0xE9>">>}

\* the number of events that have to fire before queue k of the pending
\* list is at the front with the cursor at its end
EventsAhead(k) ==
    Len(Concat(SubSeq(g_pending_queues, 1, k))) - g_current_event_index

\* C35 as stated: a pending queue with zero events is removed and destroyed
\* by the next drain tick, without a sink call, and the manager is idle
\* after that tick if it was the only pending queue.
C35_NextTickRemovesEmptyQueue ==
    g_processing_active =>
        \A k \in 1..Len(g_pending_queues) :
            g_pending_queues[k].events = <<>> =>
                LET r == TickNow
                IN  /\ Len(r.deleted) >= k
                    /\ r.deleted[k] = g_pending_queues[k]
                    /\ Len(g_pending_queues) = 1 =>
                           (r.sink = <<>> /\ ~r.active /\ r.pending = <<>>)

\* C35, amended: a text without mapped characters translates successfully
\* into a queue with zero events, which the handler submits.  The drain tick
\* that finds a queue without events at the front of the pending list (the
\* next tick, if the queue was submitted while the manager was idle) removes
\* and destroys it without a sink call, and the manager is idle after that
\* tick if it was the only pending queue; behind other queues it is removed
\* by the tick that fires the last event ahead of it, and stays pending
\* until then.
C35_EmptyQueueRemovedAtFront ==
    /\ \A t \in EventlessTexts, r \in RatePool :
           LET tr == translate_ascii_to_events(t, create_input_queue,
                                               RequestTypingRate(r),
                                               DisplayMode_PETSCII)
           IN  /\ tr.success /\ tr.events = <<>>
               /\ SubmitsQueue(tr.success)
               /\ ~IsNull(QueuePtr(tr.events))
    /\ g_processing_active =>
           \A k \in 1..Len(g_pending_queues) :
               g_pending_queues[k].events = <<>> =>
                   LET r == TickNow
                   IN  /\ Len(r.deleted) >= k <=> Len(r.fired) >= EventsAhead(k)
                       /\ Len(r.deleted) >= k => r.deleted[k] = g_pending_queues[k]
                       /\ r.sink = SinkCalls(EventsOf(r.fired))
                       /\ Len(g_pending_queues) = 1 =>
                              /\ r.deleted = g_pending_queues
                              /\ r.fired = <<>> /\ r.sink = <<>>
                              /\ ~r.active /\ r.pending = <<>>

\* a queue without events was submitted while the manager was idle and the
\* next tick has destroyed it: nothing fired, no sink call, manager idle
C35_Witness ==
    /\ submitted = <<QueuePtr(<<>>)>>
    /\ deleted = <<Destroyed(QueuePtr(<<>>), "tick")>>
    /\ fired = <<>>
    /\ sink = <<>>
    /\ g_pending_queues = <<>>
    /\ ~g_processing_active

(* ---------------------------------------------------------------------- *)
(* C36: keyboard_add_text on the legacy circular queue                     *)
(* ---------------------------------------------------------------------- *)
\* the characters waiting in a legacy queue value, oldest first
Content(l) ==
    [i \in 1..keyboard_get_queue_size(l) |->
        l.q[(l.tail + i - 1) % MCP_KEYBOARD_QUEUE_SIZE]]

\* the free space of the legacy queue: 4095 minus the current size in the
\* program
FreeSpace(l) == (MCP_KEYBOARD_QUEUE_SIZE - 1) - keyboard_get_queue_size(l)

\* C36: keyboard_add_text is all-or-nothing and bounded.  A text longer than
\* the free space (capacity minus current size, the capacity being one less
\* than the array size) is refused with head, tail and contents unchanged;
\* any other text is appended whole, in order, and accepted.  The size
\* keyboard_get_queue_size reports is between 0 and the capacity and equals
\* the characters added minus the characters removed, and the queue holds
\* the added characters that have not been removed, in order.
C36_AddTextAllOrNothing ==
    /\ keyboard_get_queue_size(Leg) \in 0..(MCP_KEYBOARD_QUEUE_SIZE - 1)
    /\ keyboard_get_queue_size(Leg) = Len(legacyAdded) - Len(legacyRemoved)
    /\ Content(Leg) = SubSeq(legacyAdded, Len(legacyRemoved) + 1, Len(legacyAdded))
    /\ \A t \in LegacyTexts :
           LET r == mcp_keyboard_queue_add_text(Leg, t)
           IN  IF t.null
               THEN ~r.ok /\ r.l = Leg
               ELSE IF Len(t.chars) > FreeSpace(Leg)
               THEN ~r.ok /\ r.l = Leg
               ELSE /\ r.ok
                    /\ r.l.tail = mcp_queue_tail
                    /\ Content(r.l) = Content(Leg) \o t.chars
                    /\ keyboard_get_queue_size(r.l)
                           = keyboard_get_queue_size(Leg) + Len(t.chars)

\* characters have been added and removed, the head has wrapped around the
\* end of the array and the queue is full: every text but the empty one is
\* refused now
C36_Witness ==
    /\ mcp_queue_head < mcp_queue_tail
    /\ legacyRemoved # <<>>
    /\ FreeSpace(Leg) = 0
    /\ ~mcp_keyboard_queue_add_text(Leg, CStr(<<"a">>)).ok
    /\ mcp_keyboard_queue_add_text(Leg, CStr(<<>>)).ok

(* ---------------------------------------------------------------------- *)
(* C37: the drain of the legacy queue                                      *)
(* ---------------------------------------------------------------------- *)
\* the character has a key on the emulated keyboard
HasKeycode(c) == ascii_to_x16_keycode(c) # 0

\* the number of characters injected so far
Injections == Len(kbd_added) \div 2

\* C37: keyboard_process_mcp_queue removes at most one character of the
\* legacy queue per call, the oldest one, so the characters leave in the
\* order in which they were added; every injected character is one
\* i2c_kbd_buffer_add call with its keycode directly followed by one with
\* the same code and bit 7 set; and two injected characters are at least
\* KEY_INJECT_DELAY_MS apart on the tick clock.
C37_OneCharacterPerDelay ==
    /\ legacyRemoved = SubSeq(legacyAdded, 1, Len(legacyRemoved))
    /\ Len(kbd_added) = 2 * Injections
    /\ Injections = Len(SelectSeq(legacyRemoved, HasKeycode))
    /\ \A k \in 1..Injections :
           /\ kbd_added[2 * k - 1].value
                  = ascii_to_x16_keycode(SelectSeq(legacyRemoved, HasKeycode)[k])
           /\ kbd_added[2 * k - 1].value \in 1..127
           /\ kbd_added[2 * k].value = kbd_added[2 * k - 1].value + 128
           /\ kbd_added[2 * k].at = kbd_added[2 * k - 1].at
           /\ k > 1 => kbd_added[2 * k - 1].at - kbd_added[2 * k - 3].at
                           >= KEY_INJECT_DELAY_MS
    /\ Injections > 0 => AgeOf(last_key_inject_time) = kbd_added[Len(kbd_added)].at
    /\ \A kbd \in KbdPool :
           LET r == process_legacy_queue(Leg, ticks, kbd[1], kbd[2])
           IN  /\ Len(r.got) <= 1
               /\ r.got # <<>> => r.got = <<Head(Content(Leg))>>
               /\ Content(r) = SubSeq(Content(Leg), Len(r.got) + 1, Len(Content(Leg)))
               /\ r.sent # <<>> =>
                      /\ r.got # <<>>
                      /\ r.sent = <<ascii_to_x16_keycode(r.got[1]),
                                    ascii_to_x16_keycode(r.got[1]) + 128>>
                      /\ Injections > 0 =>
                             USub(ticks, last_key_inject_time) >= KEY_INJECT_DELAY_MS

\* three characters have left the queue, one of them without a keycode; the
\* two others were injected exactly KEY_INJECT_DELAY_MS apart
C37_Witness ==
    /\ Len(legacyRemoved) = 3
    /\ \E i \in 1..3 : ~HasKeycode(legacyRemoved[i])
    /\ Injections = 2
    /\ kbd_added[3].at - kbd_added[1].at = KEY_INJECT_DELAY_MS

(* ---------------------------------------------------------------------- *)
(* C38: backpressure of the legacy drain                                   *)
(* ---------------------------------------------------------------------- *)
\* the outcome of keyboard_process_mcp_queue called in the current state
\* with the emulated keyboard buffer at kbd
ProcessNow(kbd) == keyboard_process_mcp_queue(Mgr, Leg, ticks, kbd[1], kbd[2])

\* C38: the legacy drain applies backpressure and the timed queues do not.
\* When more than 10 of the 16 slots of the emulated keyboard buffer are in
\* use, keyboard_process_mcp_queue takes no character from the legacy
\* queue, makes no i2c_kbd_buffer_add call and leaves the legacy queue and
\* last_key_inject_time as they were; the timed event queues are drained
\* in that call exactly as a drain tick drains them, whatever the state of
\* the keyboard buffer.  With at most 10 slots in use, a waiting character
\* whose delay has passed is taken.
C38_LegacyBackpressure ==
    \A kbd \in KbdPool :
        LET r == ProcessNow(kbd)
        IN  /\ r.m = TickNow
            /\ kbd_used(kbd[1], kbd[2]) > 10 =>
                   /\ r.l = Leg
                   /\ r.l.got = <<>> /\ r.l.sent = <<>>
                   /\ r.l.last = last_key_inject_time
                   /\ Content(r.l) = Content(Leg)
            /\ (/\ kbd_used(kbd[1], kbd[2]) <= 10
                /\ mcp_keyboard_queue_has_data(Leg)
                /\ USub(ticks, last_key_inject_time) >= KEY_INJECT_DELAY_MS) =>
                   Len(r.l.got) = 1

\* a character waits in the legacy queue and its delay has passed, a timed
\* event is due, and 11 slots of the keyboard buffer are in use: the call
\* fires the timed event into the sink and leaves the legacy queue alone
C38_Witness ==
    /\ mcp_keyboard_queue_has_data(Leg)
    /\ USub(ticks, last_key_inject_time) >= KEY_INJECT_DELAY_MS
    /\ kbd_used(11, 0) = 11
    /\ ProcessNow(<<11, 0>>).m.sink # <<>>
    /\ ProcessNow(<<11, 0>>).l = Leg
    /\ ProcessNow(<<0, 0>>).l # Leg

(* ---------------------------------------------------------------------- *)
(* C39: x16_buffer_t                                                       *)
(* ---------------------------------------------------------------------- *)
\* size < capacity and the byte at index size is the terminator
Terminated(b) == b.size < b.capacity /\ b.bytes[b.size + 1] = NUL

\* every call made on the buffer returned success
AllSucceeded == \A i \in 1..Len(bufCalls) : bufCalls[i].ok

\* a failed x16_buffer_append or x16_buffer_resize leaves the buffer as it
\* was
FailureChangesNothing ==
    /\ \A n \in 0..MaxCapacity, mem \in MemPool :
           ~x16_buffer_resize(buffer, n, mem).ok =>
               x16_buffer_resize(buffer, n, mem).b = buffer
    /\ \A d \in DataPool, mem \in MemPool : \A len \in LenPool(d) :
           ~x16_buffer_append(buffer, d, len, mem).ok =>
               x16_buffer_append(buffer, d, len, mem).b = buffer

\* C39 as stated: for an allocated buffer, after any sequence of
\* x16_buffer_alloc, _append, _set, _clear and _resize calls that returned
\* success, size < capacity and the byte at index size is the terminator; a
\* failed append or resize leaves size, capacity and bytes unchanged.
C39_AlwaysTerminated ==
    /\ (buffer.allocated /\ AllSucceeded) => Terminated(buffer)
    /\ FailureChangesNothing

\* no call so far was a resize of the allocated buffer to a capacity not
\* above its size
NeverShrunkBelowSize == \A i \in 1..Len(bufCalls) : ~bufCalls[i].shrink

\* C39, amended: for an allocated buffer, after any sequence of successful
\* alloc, append, set and clear calls and of successful resize calls to a
\* capacity above the size, size < capacity and the byte at index size is
\* the terminator.  A successful resize to a capacity not above the size
\* cuts size to the new capacity and leaves size = capacity with no room for
\* a terminator.  A failed append or resize leaves size, capacity and bytes
\* unchanged.
C39_TerminatedUnlessShrunk ==
    /\ (buffer.allocated /\ AllSucceeded /\ NeverShrunkBelowSize) => Terminated(buffer)
    /\ buffer.allocated => (buffer.size <= buffer.capacity
                            /\ Len(buffer.bytes) = buffer.capacity)
    /\ \A n \in 1..MaxCapacity :
           (buffer.allocated /\ n <= buffer.size /\ n # buffer.capacity) =>
               LET r == x16_buffer_resize(buffer, n, MemGives(Garbage))
               IN  /\ r.ok
                   /\ r.b.size = n /\ r.b.capacity = n
                   /\ r.b.bytes = SubSeq(buffer.bytes, 1, n)
                   /\ ~Terminated(r.b)
    /\ FailureChangesNothing

\* the buffer was allocated with memory of undefined content, data was
\* appended beyond its capacity and the buffer grew: the data is in place
\* and terminated
C39_Witness ==
    /\ Len(bufCalls) >= 2
    /\ bufCalls[1] = Call("alloc", TRUE, FALSE)
    /\ bufCalls[2] = Call("append", TRUE, FALSE)
    /\ AllSucceeded /\ NeverShrunkBelowSize
    /\ buffer.size = 2
    /\ buffer.capacity > 2
    /\ SubSeq(buffer.bytes, 1, 3) = <<"a", "b", NUL>>
    /\ \E i \in 1..Len(buffer.bytes) : buffer.bytes[i] = Garbage

====
